---- MODULE Spec2Model ----
(***************************************************************************)
(* A model of the transition-state search of autodE:                       *)
(*   autode/transition_states/locate_tss.py  (find_tss, get_ts, the        *)
(*       strategy generator, translate_rotate_reactant, get_truncated_ts)  *)
(*   autode/reaction.py  (locate_transition_state, find_lowest_energy_ts,  *)
(*       the construction of a Reaction, calculate_reaction_profile)       *)
(*   autode/calculation.py  (Calculation: construction, run, get_energy)   *)
(*   autode/wrappers/ORCA.py  (the reading of an output file and of a      *)
(*       Hessian, add_solvent_keyword)                                     *)
(*   autode/transition_states/base.py  (the imaginary-mode validation of   *)
(*       TSbase, displaced_species_along_mode and                          *)
(*       imag_mode_generates_other_bonds)                                  *)
(* Distances are integers in tenths of an Angstrom.  The electronic-       *)
(* structure oracle, the graph oracle and the random-restart minimiser are *)
(* nondeterministic choices over the answers they can give.                *)
(***************************************************************************)
EXTENDS Integers, Sequences, FiniteSets, TLC

\* ------------------------------------------------------------- bounds ----
\* most forming (and most breaking) bonds of an enumerated rearrangement
MaxBonds == 2
\* most bond rearrangements get_bond_rearrangs returns
MaxRearrs == 2
\* energies of optimised transition states are drawn from 0..MaxEnergy
MaxEnergy == 1
\* poses of the reactant complex are 0..MaxPose (0: as constructed)
MaxPose == 1
\* most bond rearrangements found for the truncated complexes
MaxTruncRearrs == 1

\* ------------------------------------------------------------- values ----
\* Python's None
NoneV == [is_none |-> TRUE]

IsNone(x) == x.is_none

\* a Python list that is not None
ListV(s) == [is_none |-> FALSE, list |-> s]

ReactionTypes == {"Substitution", "Elimination", "Dissociation", "Rearrangement"}

Poses == 0..MaxPose

Energies == 0..MaxEnergy

Min(a, b) == IF a < b THEN a ELSE b

Abs(a) == IF a < 0 THEN -a ELSE a

\* the concatenation of a sequence of sequences
RECURSIVE Flatten(_)
Flatten(ss) == IF ss = <<>> THEN <<>> ELSE Head(ss) \o Flatten(Tail(ss))

\* ------------------------------------------------ bond rearrangements ----
\* the k-th forming bond of the rearrangement enumerated at position idx
FBond(k, idx) == <<2 * k - 2 + (idx - 1), 2 * k - 1 + (idx - 1)>>

\* the k-th breaking bond of the rearrangement enumerated at position idx
BBond(k, idx) == <<2 * k - 1 + (idx - 1), 2 * k + (idx - 1)>>

\* a BondRearrangement with nf forming and nb breaking bonds; forming and
\* breaking bonds are disjoint and the signatures differ between positions
BondRearrangement(nf, nb, idx) ==
    [fbonds |-> [k \in 1..nf |-> FBond(k, idx)],
     bbonds |-> [k \in 1..nb |-> BBond(k, idx)]]

n_fbonds(br) == Len(br.fbonds)

n_bbonds(br) == Len(br.bbonds)

\* the (n_fbonds, n_bbonds) classes get_bond_rearrangs can return
Shapes == {s \in (0..MaxBonds) \X (0..MaxBonds) : s[1] + s[2] >= 1}

\* ----------------------------------------------------------- geometry ----
\* atom 0 is the first molecule of a two-molecule complex, the rest the second
MolOf(n_molecules, a) == IF n_molecules >= 2 /\ a = 0 THEN 0 ELSE 1

\* reactant.get_distance(atom_i, atom_j) in the pose the complex is in: a
\* rigid move of one molecule changes only the distances between molecules
get_distance(n_molecules, p, a, b) ==
    10 + (a + b) + 20 * Abs(a - b)
       + (IF MolOf(n_molecules, a) # MolOf(n_molecules, b) THEN 3 * p ELSE 0)

\* reactant.atoms[a].label
Label(a) == IF a % 3 = 0 THEN "C" ELSE IF a % 3 = 1 THEN "N" ELSE "O"

LabelRank(l) == IF l = "C" THEN 0 ELSE IF l = "N" THEN 1 ELSE 2

\* get_avg_bond_length(atom_i_label, atom_j_label)
get_avg_bond_length(li, lj) == 15 - LabelRank(li) - LabelRank(lj)

\* ------------------------------------------------- strategy generator ----
\* get_added_bbond_dist: 2.5 A if any product is charged, else 1.5 A
get_added_bbond_dist(rxn) == IF rxn.prods_charged THEN 25 ELSE 15

\* f'{reaction.name}_{reacs}--{prods}' followed by the bonds and a tag
ScanName(rxn, bonds, tag) == [base |-> rxn.name, bonds |-> bonds, tag |-> tag]

Strategy(func, bonds, n, name, method, keywords, dists, extra) ==
    [func |-> func, bonds |-> bonds, n |-> n, name |-> name, method |-> method,
     keywords |-> keywords, dists |-> dists, extra |-> extra]

\* yield get_template_ts_guess, (reactant, product, bond_rearr, hmethod, low_opt)
TemplateBlock(rxn, br) ==
    << Strategy("get_template_ts_guess", <<>>, 0, ScanName(rxn, <<>>, "template"),
                "hmethod", "low_opt", <<>>, 0) >>

FbondFinalDist(rxn, fbond) ==
    get_avg_bond_length(Label(fbond[1]), Label(fbond[2]))

BbondFinalDist(rxn, bbond) ==
    get_distance(rxn.n_molecules, rxn.pose, bbond[1], bbond[2]) + get_added_bbond_dist(rxn)

\* mutant: the 1-D scans over the breaking bond come before the 2-D scan
SubstElimBlock_1d_first(rxn, br) ==
    IF n_bbonds(br) = 1 /\ n_fbonds(br) = 1 /\ rxn.type \in {"Substitution", "Elimination"}
    THEN LET bbond == br.bbonds[1]
             fbond == br.fbonds[1]
             bd == BbondFinalDist(rxn, bbond)
             fd == FbondFinalDist(rxn, fbond)
         IN  << Strategy("get_ts_guess_1d", <<bbond>>, 12,
                         ScanName(rxn, <<fbond, bbond>>, "hl1d_bbond"),
                         "hmethod", "low_opt", <<bd>>, 0),
                Strategy("get_ts_guess_1d", <<bbond>>, 12,
                         ScanName(rxn, <<fbond, bbond>>, "hl1d_opt_level_bbond"),
                         "hmethod", "opt", <<bd>>, 0),
                Strategy("get_ts_guess_2d", <<fbond, bbond>>, 12,
                         ScanName(rxn, <<fbond, bbond>>, "ll2d"),
                         "lmethod", "low_opt", <<fd, bd>>, 0) >>
    ELSE <<>>

\* one forming and one breaking bond in a substitution or an elimination
SubstElimBlock(rxn, br) ==
    IF n_bbonds(br) = 1 /\ n_fbonds(br) = 1 /\ rxn.type \in {"Substitution", "Elimination"}
    THEN LET bbond == br.bbonds[1]
             fbond == br.fbonds[1]
             bd == BbondFinalDist(rxn, bbond)
             fd == FbondFinalDist(rxn, fbond)
         IN  << Strategy("get_ts_guess_2d", <<fbond, bbond>>, 12,
                         ScanName(rxn, <<fbond, bbond>>, "ll2d"),
                         "lmethod", "low_opt", <<fd, bd>>, 0),
                Strategy("get_ts_guess_1d", <<bbond>>, 12,
                         ScanName(rxn, <<fbond, bbond>>, "hl1d_bbond"),
                         "hmethod", "low_opt", <<bd>>, 0),
                Strategy("get_ts_guess_1d", <<bbond>>, 12,
                         ScanName(rxn, <<fbond, bbond>>, "hl1d_opt_level_bbond"),
                         "hmethod", "opt", <<bd>>, 0) >>
    ELSE <<>>

\* mutant: the rigorous scan of the forming bond comes before the cheap one
Fbond1Block_opt_first(rxn, br) ==
    IF n_bbonds(br) > 0 /\ n_fbonds(br) = 1
    THEN LET fbond == br.fbonds[1]
             fd == FbondFinalDist(rxn, fbond)
         IN  << Strategy("get_ts_guess_1d", <<fbond>>, 12,
                         ScanName(rxn, <<fbond>>, "hl1d_opt_level_fbond"),
                         "hmethod", "opt", <<fd>>, 0),
                Strategy("get_ts_guess_1d", <<fbond>>, 10,
                         ScanName(rxn, <<fbond>>, "hl1d_fbond"),
                         "hmethod", "low_opt", <<fd>>, 0) >>
    ELSE <<>>

\* a single forming bond with at least one breaking bond
Fbond1Block(rxn, br) ==
    IF n_bbonds(br) > 0 /\ n_fbonds(br) = 1
    THEN LET fbond == br.fbonds[1]
             fd == FbondFinalDist(rxn, fbond)
         IN  << Strategy("get_ts_guess_1d", <<fbond>>, 10,
                         ScanName(rxn, <<fbond>>, "hl1d_fbond"),
                         "hmethod", "low_opt", <<fd>>, 0),
                Strategy("get_ts_guess_1d", <<fbond>>, 12,
                         ScanName(rxn, <<fbond>>, "hl1d_opt_level_fbond"),
                         "hmethod", "opt", <<fd>>, 0) >>
    ELSE <<>>

\* the two 2-D scans yielded for one (fbond, bbond) pair
PairScans(rxn, fbond, bbond) ==
    LET fd == FbondFinalDist(rxn, fbond)
        bd == BbondFinalDist(rxn, bbond)
    IN  << Strategy("get_ts_guess_2d", <<fbond, bbond>>, 12,
                    ScanName(rxn, <<fbond, bbond>>, "ll2d"),
                    "lmethod", "low_opt", <<fd, bd>>, 0),
           Strategy("get_ts_guess_2d", <<fbond, bbond>>, 8,
                    ScanName(rxn, <<fbond, bbond>>, "hl2d"),
                    "hmethod", "low_opt", <<fd, bd>>, 3) >>

\* every (forming, breaking) pair, forming bonds in the outer loop
PairsBlock(rxn, br) ==
    IF n_bbonds(br) >= 1 /\ n_fbonds(br) >= 1
    THEN Flatten([f \in 1..n_fbonds(br) |->
                    Flatten([b \in 1..n_bbonds(br) |->
                               PairScans(rxn, br.fbonds[f], br.bbonds[b])])])
    ELSE <<>>

\* a single breaking bond and no forming bond
Bbond1Block(rxn, br) ==
    IF n_bbonds(br) = 1 /\ n_fbonds(br) = 0
    THEN LET bbond == br.bbonds[1]
             bd == BbondFinalDist(rxn, bbond)
         IN  << Strategy("get_ts_guess_1d", <<bbond>>, 12,
                         ScanName(rxn, <<bbond>>, "hl1d"),
                         "hmethod", "low_opt", <<bd>>, 0),
                Strategy("get_ts_guess_1d", <<bbond>>, 12,
                         ScanName(rxn, <<bbond>>, "hl1d_opt_level"),
                         "hmethod", "opt", <<bd>>, 0) >>
    ELSE <<>>

\* two forming bonds
Fbonds2Block(rxn, br) ==
    IF n_fbonds(br) = 2
    THEN LET fbond1 == br.fbonds[1]
             fbond2 == br.fbonds[2]
             fd1 == FbondFinalDist(rxn, fbond1)
             fd2 == FbondFinalDist(rxn, fbond2)
         IN  << Strategy("get_ts_guess_2d", <<fbond1, fbond2>>, 12,
                         ScanName(rxn, <<fbond1, fbond2>>, "ll2d_fbonds"),
                         "lmethod", "low_opt", <<fd1, fd2>>, 0),
                Strategy("get_ts_guess_2d", <<fbond1, fbond2>>, 8,
                         ScanName(rxn, <<fbond1, fbond2>>, "hl2d_fbonds"),
                         "hmethod", "low_opt", <<fd1, fd2>>, 3) >>
    ELSE <<>>

\* two breaking bonds: both final distances are taken between the first atom
\* of the first bond and the second atom of the second, plus twice the
\* added distance
Bbonds2Block(rxn, br) ==
    IF n_bbonds(br) = 2
    THEN LET bbond1 == br.bbonds[1]
             bbond2 == br.bbonds[2]
             bd1 == get_distance(rxn.n_molecules, rxn.pose, bbond1[1], bbond2[2])
                      + get_added_bbond_dist(rxn) + get_added_bbond_dist(rxn)
             bd2 == get_distance(rxn.n_molecules, rxn.pose, bbond1[1], bbond2[2])
                      + get_added_bbond_dist(rxn) + get_added_bbond_dist(rxn)
         IN  << Strategy("get_ts_guess_2d", <<bbond1, bbond2>>, 12,
                         ScanName(rxn, <<bbond1, bbond2>>, "ll2d_bbonds"),
                         "lmethod", "low_opt", <<bd1, bd2>>, 0),
                Strategy("get_ts_guess_2d", <<bbond1, bbond2>>, 8,
                         ScanName(rxn, <<bbond1, bbond2>>, "hl2d_bbonds"),
                         "hmethod", "low_opt", <<bd1, bd2>>, 3) >>
    ELSE <<>>

\* the whole sequence the generator yields, in yield order
get_ts_guess_function_and_params(rxn, br) ==
    TemplateBlock(rxn, br) \o SubstElimBlock(rxn, br) \o Fbond1Block(rxn, br)
      \o PairsBlock(rxn, br) \o Bbond1Block(rxn, br) \o Fbonds2Block(rxn, br)
      \o Bbonds2Block(rxn, br)

\* ------------------------------------------------------------- state ----
VARIABLES
    pc,               \* where the control flow is
    exc,              \* the exception propagating to the caller ("" if none)
    rtype,            \* reaction.type
    prods_charged,    \* any(mol.charge != 0 for mol in reaction.prods)
    n_molecules,      \* len(reactant.molecules)
    make_ts_template, \* Config.make_ts_template
    bond_rearrangs,   \* what get_bond_rearrangs(reactant, product) returns
    name,             \* reaction.name: how many '_truncated' suffixes it carries
    r_tss,            \* reaction.tss
    r_ts,             \* reaction.ts
    pose,             \* geometry of the reactant complex made by find_tss
    t_pose,           \* geometry of the truncated reactant complex
    i,                \* find_tss: rearrangements taken from bond_rearrangs so far
    tss,              \* find_tss: the local list tss
    find_ret,         \* what find_tss returned
    in_trunc,         \* inside the get_ts called by get_truncated_ts
    t_rearrs,         \* get_truncated_ts: the rearrangements of the truncated complexes
    t_j,              \* get_truncated_ts: rearrangements taken from t_rearrs so far
    k,                \* get_ts: strategies taken from the generator so far
    att,              \* get_ts: what has been done with the current strategy's guess
    ts,               \* get_ts: the local TransitionState object
    get_ret,          \* what get_ts returned
    templates,        \* how many transition state templates have been saved
    calls,            \* history: the rearrangements find_tss called get_ts with
    invoked,          \* history: strategies invoked in the current get_ts call
    failed,           \* history: strategies of the current get_ts call that failed
    succeeded,        \* history: strategies of the current get_ts call that gave a true TS
    g_br,             \* generator run on its own: the bond rearrangement
    yielded,          \* generator run on its own: the strategies yielded so far
    v_pc,             \* validator: where the evaluation is
    v_entry,          \* validator: the property or method that was called
    v_result,         \* validator: what the evaluation returns
    v_exc,            \* validator: the exception the evaluation raised ("" if none)
    v_results,        \* validator: the results of the evaluations made so far
    ts_br_set,        \* TSbase.bond_rearrangement is not None
    ts_reactant,      \* TSbase.reactant is not None
    ts_product,       \* TSbase.product is not None
    ts_hessian,       \* TSbase.hessian
    ts_coords,        \* TSbase.coordinates
    conformers,       \* times the conformers of reactant and product were populated
    hess_oracle,      \* oracle: the Hessian a Hessian calculation of the TS gives
    other_bonds,      \* oracle: the displaced geometries make bonds between inactive atoms
    opt_memo,         \* oracle: outcome of optimising each displaced molecule with each method
    lk_method,        \* link check: position in (hmethod, lmethod)
    lk_mol,           \* link check: position in (f_mol, b_mol)
    f_mol,            \* link check: the forwards displaced molecule
    b_mol,            \* link check: the backwards displaced molecule
    hess_calcs,       \* Hessian calculations run in this evaluation
    disp_checks,      \* displacement checks run in this evaluation
    opts              \* optimisations of displaced geometries run in this evaluation

inputs == <<rtype, prods_charged, n_molecules, make_ts_template, bond_rearrangs>>

reaction == <<name, r_tss, r_ts>>

geom == <<pose, t_pose>>

ftss == <<i, tss, find_ret>>

trunc == <<in_trunc, t_rearrs, t_j>>

gts == <<k, att, ts, get_ret>>

hist == <<calls, invoked, failed, succeeded>>

gen == <<g_br, yielded>>

\* the transition state under validation and its reactant and product
tsbase == <<ts_br_set, ts_reactant, ts_product, ts_hessian, ts_coords, conformers>>

oracle == <<hess_oracle, other_bonds, opt_memo>>

links == <<lk_method, lk_mol, f_mol, b_mol>>

counts == <<hess_calcs, disp_checks, opts>>

val == <<v_pc, v_entry, v_result, v_exc, v_results, tsbase, oracle, links, counts>>

search == <<pc, exc, inputs, reaction, geom, ftss, trunc, gts, templates, hist, gen>>

\* a call of one of the displacement functions of base.py on its own
VARIABLES
    d_pc,             \* "d_call" before the call, "d_done" after it
    d_entry,          \* the function called
    d_coords,         \* species.coordinates
    d_mode,           \* species.normal_mode(6)
    d_factor,         \* disp_factor
    d_cap,            \* max_atom_disp
    d_br,             \* ts.bond_rearrangement
    d_delta,          \* delta_threshold
    d_req_all,        \* req_all
    d_ts_graph,       \* edges of the graph make_graph gives the TS
    d_f_graph,        \* edges of the graph of the forward displaced species
    d_b_graph,        \* edges of the graph of the backward displaced species
    d_ret,            \* what the call returned
    d_ret_b           \* what a second call, with -disp_factor, returned

dispv == <<d_pc, d_entry, d_coords, d_mode, d_factor, d_cap, d_br, d_delta, d_req_all,
           d_ts_graph, d_f_graph, d_b_graph, d_ret, d_ret_b>>

\* a call of translate_rotate_reactant on its own
VARIABLES
    tr_pc,            \* where translate_rotate_reactant is
    tr_n_mols,        \* len(reactant.molecules)
    tr_a_atoms,       \* the a_atom of each substitution centre
    tr_coords,        \* the coordinates of the atoms of the reactant complex
    attacking_mol,    \* the molecule to move
    min_cost,         \* the lowest res.fun so far
    opt_x,            \* the res.x that gave it
    restarts,         \* what minimize returned, restart by restart
    logged_cost       \* the minimum cost written to the log

trv == <<tr_pc, tr_n_mols, tr_a_atoms, tr_coords, attacking_mol, min_cost, opt_x,
         restarts, logged_cost>>

\* a Calculation, from its construction to the reading of its energy
VARIABLES
    c_pc,               \* where the calculation is
    c_exc,              \* what run raised ("" if nothing)
    xyzs_none,          \* molecule.xyzs is None
    bond_ids_to_add,    \* the active bonds, or None
    mol_graph,          \* the bonds of the molecule
    core_atoms,         \* self.core_atoms
    method_available,   \* self.method.available
    input_filename,     \* self.input_filename is set
    input_file,         \* the input file is on disk
    output_file,        \* the lines of the output file on disk, None if there is none
    output_file_exists, \* self.output_file_exists
    output_file_lines,  \* self.output_file_lines
    terminated_normally,\* self.terminated_normally
    waited,             \* time spent in subprocess.wait()
    n_popen,            \* external programs started
    energy_ret,         \* what get_energy gave
    runs                \* terminated_normally and n_popen at the end of each run so far

calcv == <<c_pc, c_exc, xyzs_none, bond_ids_to_add, mol_graph, core_atoms, method_available,
           input_filename, input_file, output_file, output_file_exists, output_file_lines,
           terminated_normally, waited, n_popen, energy_ret, runs>>

\* the construction of a Reaction
VARIABLES
    rx_pc,                \* where Reaction.__init__ is
    rx_exc,               \* what it raised ("" if nothing)
    reacs,                \* self.reacs
    prods,                \* self.prods
    rx_type,              \* self.type
    solvent,              \* self.solvent
    charge,               \* self.charge
    switched_reacs_prods  \* self.switched_reacs_prods

rxnv == <<rx_pc, rx_exc, reacs, prods, rx_type, solvent, charge, switched_reacs_prods>>

\* the reading of a Hessian from an ORCA .hess file
VARIABLES
    h_pc,             \* "h_call" before get_hessian, "h_done" after it
    h_n_atoms,        \* calc.molecule.n_atoms
    h_file,           \* the .hess file on disk
    h_ret             \* what get_hessian raised or the shape of what it returned

hessv == <<h_pc, h_n_atoms, h_file, h_ret>>

\* the parts of the program modelled on their own, after the first four
\* calculate_reaction_profile, with find_tss as an oracle
VARIABLES
    p_pc,                 \* the step calculate_reaction_profile is at
    p_exc,                \* what it raised ("" if nothing)
    explicit_solvation,   \* Config.explicit_solvation
    p_tss,                \* reaction.tss
    p_ts,                 \* reaction.ts
    reacs_energy,         \* the sum of the energies of the reactants
    steps,                \* the steps completed, in order
    e_ts                  \* the barrier given to plot_reaction_profile

profv == <<p_pc, p_exc, explicit_solvation, p_tss, p_ts, reacs_energy, steps, e_ts>>

\* a call of add_solvent_keyword on its own
VARIABLES
    s_pc,                 \* "s_call" before the call, "s_done" after it
    implicit_solv_type,   \* implicit_solv_type
    calc_solvent,         \* calc_input.solvent
    given_keywords,       \* the keywords as they were when the call was made
    keywords,             \* the list keywords
    s_exc                 \* what the call raised ("" if nothing)

solvv == <<s_pc, implicit_solv_type, calc_solvent, given_keywords, keywords, s_exc>>

extra == <<hessv, profv, solvv>>

aux == <<dispv, trv, calcv, rxnv, extra>>

\* the first six parts
core == <<search, val, dispv, trv, calcv, rxnv>>

vars == <<search, val, aux>>

\* no displacement function is being called on its own
DispIdle ==
    /\ d_pc = "d_off"
    /\ d_entry = ""
    /\ d_coords = <<>>
    /\ d_mode = NoneV
    /\ d_factor = 0
    /\ d_cap = 0
    /\ d_br = BondRearrangement(0, 0, 1)
    /\ d_delta = 0
    /\ d_req_all = FALSE
    /\ d_ts_graph = {}
    /\ d_f_graph = {}
    /\ d_b_graph = {}
    /\ d_ret = NoneV
    /\ d_ret_b = NoneV

\* translate_rotate_reactant is not being called on its own
TrIdle ==
    /\ tr_pc = "tr_off"
    /\ tr_n_mols = 1
    /\ tr_a_atoms = {}
    /\ tr_coords = <<>>
    /\ attacking_mol = 0
    /\ min_cost = NoneV
    /\ opt_x = NoneV
    /\ restarts = <<>>
    /\ logged_cost = NoneV

\* there is no Calculation
CalcIdle ==
    /\ c_pc = "c_off"
    /\ c_exc = ""
    /\ xyzs_none = FALSE
    /\ bond_ids_to_add = NoneV
    /\ mol_graph = {}
    /\ core_atoms = NoneV
    /\ method_available = TRUE
    /\ input_filename = FALSE
    /\ input_file = FALSE
    /\ output_file = NoneV
    /\ output_file_exists = FALSE
    /\ output_file_lines = NoneV
    /\ terminated_normally = FALSE
    /\ waited = 0
    /\ n_popen = 0
    /\ energy_ret = "unasked"
    /\ runs = <<>>

\* no Reaction is being constructed
RxnIdle ==
    /\ rx_pc = "rx_off"
    /\ rx_exc = ""
    /\ reacs = <<>>
    /\ prods = <<>>
    /\ rx_type = ""
    /\ solvent = "None"
    /\ charge = NoneV
    /\ switched_reacs_prods = FALSE

\* no Hessian is being read
HessIdle ==
    /\ h_pc = "h_off"
    /\ h_n_atoms = 0
    /\ h_file = NoneV
    /\ h_ret = NoneV

\* add_solvent_keyword is not being called on its own
SolvIdle ==
    /\ s_pc = "s_off"
    /\ implicit_solv_type = ""
    /\ calc_solvent = ""
    /\ given_keywords = <<>>
    /\ keywords = <<>>
    /\ s_exc = ""

\* no reaction profile is being calculated
ProfIdle ==
    /\ p_pc = "p_off"
    /\ p_exc = ""
    /\ explicit_solvation = FALSE
    /\ p_tss = NoneV
    /\ p_ts = NoneV
    /\ reacs_energy = 0
    /\ steps = <<>>
    /\ e_ts = NoneV

\* none of the later parts is running
ExtraIdle == HessIdle /\ ProfIdle /\ SolvIdle

\* only the search or the validator is running
AuxIdle == DispIdle /\ TrIdle /\ CalcIdle /\ RxnIdle /\ ExtraIdle

\* nothing has been done with a guess yet
NoAttempt == [guess |-> FALSE, filter |-> FALSE, opt |-> FALSE, valid |-> FALSE]

\* every rearrangement list get_bond_rearrangs can return for one (nf, nb) class
RearrLists(nf, nb, longest) ==
    {ListV([j \in 1..m |-> BondRearrangement(nf, nb, j)]) : m \in 0..longest}

\* the classes of rearrangement the search is run on: one forming and one
\* breaking bond, a single breaking bond, two forming bonds
SearchShapes == {<<1, 1>>, <<0, 1>>, <<2, 0>>}

\* the reaction types the search is run on: one the generator treats as a
\* substitution or elimination and one it does not
SearchTypes == {"Substitution", "Dissociation"}

\* get_bond_rearrangs: None, or the rearrangements of one class
BondRearrangResults ==
    {NoneV} \cup UNION {RearrLists(s[1], s[2], MaxRearrs) : s \in SearchShapes}

\* the complex, rearrangement and reaction get_ts is working on
CurBR == IF in_trunc THEN t_rearrs.list[t_j] ELSE bond_rearrangs.list[i]

CurRxn ==
    [name |-> name, type |-> rtype, prods_charged |-> prods_charged,
     n_molecules |-> n_molecules, pose |-> IF in_trunc THEN t_pose ELSE pose]

CurStrategies == get_ts_guess_function_and_params(CurRxn, CurBR)

\* ------------------------------------------------------ pure helpers ----
\* Calculation.get_final_xyzs: no xyzs in the output raises XYZsNotFound
get_final_xyzs(xyzs) == IF Len(xyzs) = 0 THEN "XYZsNotFound" ELSE ""

\* ORCA._start_line_hessian / get_hessian: no Hessian in the output raises
get_hessian(found) == IF found THEN "" ELSE "CouldNotGetProperty"

\* reaction.name -= '_truncated': str has no subtraction, Python raises
name_isub(n) == "TypeError"

\* iterating over what get_bond_rearrangs returned: None is not iterable
iter_error(rearrs) == IF IsNone(rearrs) THEN "TypeError" ELSE ""

\* if strip_molecule and is_worth_truncating(reactant, bond_rearrangement)
runs_truncation(strip_molecule, worth) == strip_molecule /\ worth

\* if ts_guess is None: continue
continue_after_guess(guess_is_none) == guess_is_none

\* mutant: a guess that fails the cheap filter is optimised all the same
filter_never_continues(could_have) == FALSE

\* if not ts_guess.could_have_correct_imag_mode(...): continue
continue_after_filter(could_have) == ~could_have

\* mutant: the loop goes on after a true transition state instead of returning
validation_always_continues(is_true) == TRUE

\* if not ts.is_true_ts(): continue
continue_after_validation(is_true) == ~is_true

\* the end of find_tss: the list if it holds a transition state, else None
find_tss_result(l) == IF Len(l) > 0 THEN ListV(l) ELSE NoneV

\* mutant: the transition state is put at the front of the list
prepend_ts(l, t) == IF ~IsNone(t) THEN <<t>> \o l ELSE l

\* if ts is not None: tss.append(ts)
append_ts(l, t) == IF ~IsNone(t) THEN Append(l, t) ELSE l

\* min([ts.energy for ts in tss])
RECURSIVE min_energy(_)
min_energy(l) ==
    IF Len(l) = 1 THEN l[1].energy ELSE Min(l[1].energy, min_energy(Tail(l)))

\* mutant: the last transition state with the lowest energy is taken
RECURSIVE last_with_energy(_, _)
last_with_energy(l, e) ==
    IF l[Len(l)].energy = e THEN l[Len(l)] ELSE last_with_energy(SubSeq(l, 1, Len(l) - 1), e)

\* [ts for ts in tss if ts.energy == min_ts_energy][0]
RECURSIVE first_with_energy(_, _)
first_with_energy(l, e) ==
    IF l[1].energy = e THEN l[1] ELSE first_with_energy(Tail(l), e)

\* Reaction.find_lowest_energy_ts (tss[0] of an empty list is an IndexError)
find_lowest_energy_ts(t) ==
    IF IsNone(t) THEN NoneV
    ELSE IF Len(t.list) > 1 THEN first_with_energy(t.list, min_energy(t.list))
    ELSE IF Len(t.list) = 1 THEN t.list[1]
    ELSE [is_none |-> FALSE, error |-> "IndexError"]

\* the geometry translate_rotate_reactant leaves the complex in: untouched
\* with fewer than two molecules, else moved by the best restart's parameters
translate_rotate_reactant(n_mols, p, opt_pose) == IF n_mols < 2 THEN p ELSE opt_pose

\* the reactant complex get_ts is handed by find_tss: the one complex built
\* before the loop, in whatever pose the earlier calls left it
reactant_passed(constructed, current) == current

\* --------------------------------------------------------- the search ----
\* the position of the rearrangement get_ts is working on in its list
CurIdx == IF in_trunc THEN t_j ELSE i

\* a TransitionState made from the current guess and optimised
NewTS ==
    [is_none |-> FALSE, rearr |-> CurIdx, truncated |-> in_trunc, strategy |-> k,
     checks |-> [att EXCEPT !.opt = TRUE]]

\* the transition state as find_tss keeps it
TssEntry(t) == [is_none |-> FALSE, rearr |-> t.rearr, checks |-> t.checks]

\* ts.energy as find_lowest_energy_ts reads it: what the optimisation left
WithEnergy(t, e) ==
    [is_none |-> FALSE, rearr |-> t.rearr, checks |-> t.checks, energy |-> e]

\* what the oracle can leave as final geometry: nothing, or some xyzs
XyzsOutcomes == {<<>>, <<"xyz">>}

\* the rearrangement lists of the truncated complexes: None or the class of br
TruncatedRearrResults(br) ==
    {NoneV} \cup RearrLists(n_fbonds(br), n_bbonds(br), MaxTruncRearrs)

\* no validation is going on
ValIdle ==
    /\ v_pc = "v_off"
    /\ v_entry = ""
    /\ v_result = NoneV
    /\ v_exc = ""
    /\ v_results = <<>>
    /\ ts_br_set = TRUE
    /\ ts_reactant = TRUE
    /\ ts_product = TRUE
    /\ ts_hessian = NoneV
    /\ ts_coords = <<>>
    /\ conformers = 0
    /\ hess_oracle = NoneV
    /\ other_bonds = FALSE
    /\ opt_memo = <<>>
    /\ lk_method = 0
    /\ lk_mol = 0
    /\ f_mol = NoneV
    /\ b_mol = NoneV
    /\ hess_calcs = 0
    /\ disp_checks = 0
    /\ opts = 0

Init ==
    /\ AuxIdle
    /\ pc = "start"
    /\ exc = ""
    /\ rtype \in SearchTypes
    /\ prods_charged = FALSE
    /\ n_molecules \in {1, 2}
    /\ make_ts_template \in BOOLEAN
    /\ bond_rearrangs \in BondRearrangResults
    /\ name = 0
    /\ r_tss = NoneV
    /\ r_ts = NoneV
    /\ pose = 0
    /\ t_pose = 0
    /\ i = 0
    /\ tss = <<>>
    /\ find_ret = NoneV
    /\ in_trunc = FALSE
    /\ t_rearrs = NoneV
    /\ t_j = 0
    /\ k = 0
    /\ att = NoAttempt
    /\ ts = NoneV
    /\ get_ret = NoneV
    /\ templates = 0
    /\ calls = <<>>
    /\ invoked = <<>>
    /\ failed = {}
    /\ succeeded = <<>>
    /\ g_br = BondRearrangement(0, 0, 1)
    /\ yielded = <<>>
    /\ ValIdle

\* an exception leaves every frame: nothing else changes
Raise(e) ==
    /\ pc' = "raised"
    /\ exc' = e

\* get_ts starts on a rearrangement: nothing tried yet
EnterGetTs ==
    /\ pc' = "get_ts"
    /\ k' = 0
    /\ att' = NoAttempt
    /\ ts' = NoneV
    /\ get_ret' = NoneV
    /\ invoked' = <<>>
    /\ failed' = {}
    /\ succeeded' = <<>>

\* locate_transition_state calls find_tss: the complexes are built, the
\* rearrangements enumerated; None ends the search at once
find_tss_begin ==
    /\ pc = "start"
    /\ IF IsNone(bond_rearrangs)
       THEN /\ find_ret' = NoneV
            /\ pc' = "find_tss_returned"
       ELSE /\ find_ret' = find_ret
            /\ pc' = "find_tss_loop"
    /\ tss' = <<>>
    /\ i' = 0
    /\ UNCHANGED <<exc, inputs, reaction, geom, trunc, gts, templates, hist, gen, val, aux>>

\* for bond_rearrangement in bond_rearrangs: ts = get_ts(reaction, reactant, ...)
find_tss_call_get_ts ==
    /\ pc = "find_tss_loop"
    /\ i < Len(bond_rearrangs.list)
    /\ i' = i + 1
    /\ calls' = Append(calls, i + 1)
    /\ in_trunc' = FALSE
    /\ pose' = reactant_passed(0, pose)
    /\ EnterGetTs
    /\ UNCHANGED <<exc, inputs, reaction, t_pose, tss, find_ret, t_rearrs, t_j, templates, gen, val, aux>>

\* the loop is over: return the list, or None if it is empty
find_tss_end ==
    /\ pc = "find_tss_loop"
    /\ i = Len(bond_rearrangs.list)
    /\ find_ret' = find_tss_result(tss)
    /\ pc' = "find_tss_returned"
    /\ UNCHANGED <<exc, inputs, reaction, geom, i, tss, trunc, gts, templates, hist, gen, val, aux>>

\* get_ts: the truncation pre-pass is entered if the complex is worth
\* truncating (get_truncated_ts up to its loop), else the reactant is oriented
get_ts_begin ==
    /\ pc = "get_ts"
    /\ \E worth \in BOOLEAN :
         IF runs_truncation(~in_trunc, worth)
         THEN /\ name' = name + 1
              /\ t_rearrs' \in TruncatedRearrResults(CurBR)
              /\ t_j' = 0
              /\ t_pose' = pose
              /\ pc' = "trunc_loop"
         ELSE /\ UNCHANGED <<name, t_rearrs, t_j, t_pose>>
              /\ pc' = "orient"
    /\ UNCHANGED <<exc, inputs, r_tss, r_ts, pose, ftss, in_trunc, gts, templates, hist, gen, val, aux>>

\* get_truncated_ts: get_ts(..., strip_molecule=False) on the next rearrangement
trunc_call_get_ts ==
    /\ pc = "trunc_loop"
    /\ iter_error(t_rearrs) = ""
    /\ t_j < Len(t_rearrs.list)
    /\ t_j' = t_j + 1
    /\ in_trunc' = TRUE
    /\ EnterGetTs
    /\ UNCHANGED <<exc, inputs, reaction, geom, ftss, t_rearrs, templates, calls, gen, val, aux>>

\* get_truncated_ts: the loop cannot start (None), or it is over and the
\* suffix is taken off reaction.name
trunc_end ==
    /\ pc = "trunc_loop"
    /\ IF iter_error(t_rearrs) # ""
       THEN /\ Raise(iter_error(t_rearrs))
            /\ UNCHANGED <<name, gts, invoked, failed, succeeded>>
       ELSE /\ t_j = Len(t_rearrs.list)
            /\ IF name_isub(name) # ""
               THEN /\ Raise(name_isub(name))
                    /\ UNCHANGED <<name, gts, invoked, failed, succeeded>>
               ELSE /\ name' = name - 1
                    /\ exc' = exc
                    /\ EnterGetTs
                    /\ pc' = "orient"
    /\ UNCHANGED <<inputs, r_tss, r_ts, geom, ftss, trunc, templates, calls, gen, val, aux>>

\* translate_rotate_reactant(reactant, bond_rearrangement, shift_factor)
orient ==
    /\ pc = "orient"
    /\ \E opt_pose \in Poses :
         IF in_trunc
         THEN /\ t_pose' = translate_rotate_reactant(n_molecules, t_pose, opt_pose)
              /\ pose' = pose
         ELSE /\ pose' = translate_rotate_reactant(n_molecules, pose, opt_pose)
              /\ t_pose' = t_pose
    /\ pc' = "strategies"
    /\ UNCHANGED <<exc, inputs, reaction, ftss, trunc, gts, templates, hist, gen, val, aux>>

\* the next (func, params) of the generator: ts_guess = func(*params)
try_strategy ==
    /\ pc = "strategies"
    /\ k < Len(CurStrategies)
    /\ k' = k + 1
    /\ invoked' = Append(invoked, k + 1)
    /\ \E xyzs \in XyzsOutcomes, found \in BOOLEAN :
         IF get_final_xyzs(xyzs) # ""
         THEN /\ Raise(get_final_xyzs(xyzs))
              /\ UNCHANGED <<att, failed>>
         ELSE /\ exc' = exc
              /\ att' = [NoAttempt EXCEPT !.guess = found]
              /\ IF continue_after_guess(~found)
                 THEN /\ failed' = failed \cup {k + 1}
                      /\ pc' = "strategies"
                 ELSE /\ failed' = failed
                      /\ pc' = "filter"
    /\ UNCHANGED <<inputs, reaction, geom, ftss, trunc, ts, get_ret, templates,
                   calls, succeeded, gen, val, aux>>

\* the generator is exhausted: return None
strategies_exhausted ==
    /\ pc = "strategies"
    /\ k = Len(CurStrategies)
    /\ get_ret' = NoneV
    /\ pc' = "get_ts_return"
    /\ UNCHANGED <<exc, inputs, reaction, geom, ftss, trunc, k, att, ts, templates, hist, gen, val, aux>>

\* ts_guess.could_have_correct_imag_mode(bond_rearrangement=...)
cheap_filter ==
    /\ pc = "filter"
    /\ \E hess_found \in BOOLEAN, could_have \in BOOLEAN :
         IF ~att.guess
         THEN /\ Raise("AttributeError")
              /\ UNCHANGED <<att, failed>>
         ELSE IF get_hessian(hess_found) # ""
         THEN /\ Raise(get_hessian(hess_found))
              /\ UNCHANGED <<att, failed>>
         ELSE /\ exc' = exc
              /\ att' = [att EXCEPT !.filter = could_have]
              /\ IF continue_after_filter(could_have)
                 THEN /\ failed' = failed \cup {k}
                      /\ pc' = "strategies"
                 ELSE /\ failed' = failed
                      /\ pc' = "opt_ts"
    /\ UNCHANGED <<inputs, reaction, geom, ftss, trunc, k, ts, get_ret, templates,
                   calls, invoked, succeeded, gen, val, aux>>

\* ts = TransitionState(ts_guess, ...); ts.opt_ts()
opt_ts ==
    /\ pc = "opt_ts"
    /\ \E xyzs \in XyzsOutcomes :
         IF get_final_xyzs(xyzs) # ""
         THEN /\ Raise(get_final_xyzs(xyzs))
              /\ UNCHANGED <<att, ts>>
         ELSE /\ exc' = exc
              /\ att' = [att EXCEPT !.opt = TRUE]
              /\ ts' = NewTS
              /\ pc' = "is_true_ts"
    /\ UNCHANGED <<inputs, reaction, geom, ftss, trunc, k, get_ret, templates, hist, gen, val, aux>>

\* if not ts.is_true_ts(): continue;  else save the template and return ts
is_true_ts ==
    /\ pc = "is_true_ts"
    /\ \E is_true \in BOOLEAN :
         /\ att' = [att EXCEPT !.valid = is_true]
         /\ ts' = [ts EXCEPT !.checks.valid = is_true]
         /\ succeeded' = IF is_true THEN Append(succeeded, k) ELSE succeeded
         /\ failed' = IF is_true THEN failed ELSE failed \cup {k}
         /\ IF continue_after_validation(is_true)
            THEN /\ pc' = "strategies"
                 /\ UNCHANGED <<get_ret, templates>>
            ELSE /\ templates' = IF make_ts_template THEN templates + 1 ELSE templates
                 /\ get_ret' = ts'
                 /\ pc' = "get_ts_return"
    /\ UNCHANGED <<exc, inputs, reaction, geom, ftss, trunc, k, calls, invoked, gen, val, aux>>

\* back in find_tss: if ts is not None: tss.append(ts)
get_ts_return_to_find_tss ==
    /\ pc = "get_ts_return"
    /\ ~in_trunc
    /\ tss' = append_ts(tss, IF IsNone(get_ret) THEN get_ret ELSE TssEntry(get_ret))
    /\ pc' = "find_tss_loop"
    /\ UNCHANGED <<exc, inputs, reaction, geom, i, find_ret, trunc, gts, templates, hist, gen, val, aux>>

\* back in get_truncated_ts: the result of get_ts is dropped
get_ts_return_to_truncation ==
    /\ pc = "get_ts_return"
    /\ in_trunc
    /\ in_trunc' = FALSE
    /\ pc' = "trunc_loop"
    /\ UNCHANGED <<exc, inputs, reaction, geom, ftss, t_rearrs, t_j, gts, templates, hist, gen, val, aux>>

\* locate_transition_state: self.tss = find_tss(self);
\* self.ts = self.find_lowest_energy_ts(), which reads each ts.energy
locate_transition_state ==
    /\ pc = "find_tss_returned"
    /\ IF IsNone(find_ret)
       THEN /\ r_tss' = find_ret
            /\ r_ts' = find_lowest_energy_ts(find_ret)
       ELSE \E es \in [1..Len(find_ret.list) -> Energies] :
              LET found == ListV([a \in 1..Len(find_ret.list) |->
                                   WithEnergy(find_ret.list[a], es[a])])
              IN  /\ r_tss' = found
                  /\ r_ts' = find_lowest_energy_ts(found)
    /\ pc' = "done"
    /\ UNCHANGED <<exc, inputs, name, geom, ftss, trunc, gts, templates, hist, gen, val, aux>>

Next ==
    \/ find_tss_begin
    \/ find_tss_call_get_ts
    \/ find_tss_end
    \/ get_ts_begin
    \/ trunc_call_get_ts
    \/ trunc_end
    \/ orient
    \/ try_strategy
    \/ strategies_exhausted
    \/ cheap_filter
    \/ opt_ts
    \/ is_true_ts
    \/ get_ts_return_to_find_tss
    \/ get_ts_return_to_truncation
    \/ locate_transition_state

Spec == Init /\ [][Next]_vars

\* ------------------------------------------ the generator on its own ----
\* the reaction the generator is run for
GenRxn ==
    [name |-> name, type |-> rtype, prods_charged |-> prods_charged,
     n_molecules |-> n_molecules, pose |-> pose]

GenStrategies == get_ts_guess_function_and_params(GenRxn, g_br)

\* every reaction type, charge state, complex, pose and class of rearrangement
InitGen ==
    /\ AuxIdle
    /\ pc = "gen"
    /\ exc = ""
    /\ rtype \in ReactionTypes
    /\ prods_charged \in BOOLEAN
    /\ n_molecules \in {1, 2}
    /\ make_ts_template = FALSE
    /\ bond_rearrangs = NoneV
    /\ name \in {0, 1}
    /\ r_tss = NoneV
    /\ r_ts = NoneV
    /\ pose \in Poses
    /\ t_pose = 0
    /\ i = 0
    /\ tss = <<>>
    /\ find_ret = NoneV
    /\ in_trunc = FALSE
    /\ t_rearrs = NoneV
    /\ t_j = 0
    /\ k = 0
    /\ att = NoAttempt
    /\ ts = NoneV
    /\ get_ret = NoneV
    /\ templates = 0
    /\ calls = <<>>
    /\ invoked = <<>>
    /\ failed = {}
    /\ succeeded = <<>>
    /\ g_br \in {BondRearrangement(s[1], s[2], 1) : s \in Shapes}
    /\ yielded = <<>>
    /\ ValIdle

\* next(generator): the next (func, params) pair
gen_yield ==
    /\ pc = "gen"
    /\ Len(yielded) < Len(GenStrategies)
    /\ yielded' = Append(yielded, GenStrategies[Len(yielded) + 1])
    /\ UNCHANGED <<pc, exc, inputs, reaction, geom, ftss, trunc, gts, templates, hist, g_br, val, aux>>

\* return None: the generator is exhausted
gen_return ==
    /\ pc = "gen"
    /\ Len(yielded) = Len(GenStrategies)
    /\ pc' = "gen_done"
    /\ UNCHANGED <<exc, inputs, reaction, geom, ftss, trunc, gts, templates, hist, gen, val, aux>>

NextGen ==
    \/ gen_yield
    \/ gen_return

SpecGen == InitGen /\ [][NextGen]_vars

\* ------------------------------------------- imaginary-mode validator ----
\* evaluations of a validation property made on one transition state
MaxEvals == 2

\* Config.min_imag_freq, in cm-1
min_imag_freq == -40

\* the imaginary frequencies a Hessian can have: None (no imaginary mode) or
\* the negative frequencies, most negative first
ImagFreqs == {NoneV, ListV(<<-100>>), ListV(<<-10>>), ListV(<<-100, -10>>)}

\* displacements are in hundredths of an Angstrom: three atoms on a line,
\* the forming bond between atoms 0 and 1, the breaking bond between 1 and 2
Coordinates == <<0, 200, 400>>

\* the bond rearrangement of the transition state under validation
ActiveBonds == BondRearrangement(1, 1, 1)

\* the displacement of each atom along the imaginary mode, per unit of
\* disp_factor; atom 0 is kept still
Modes == {<<0, a, b>> : a \in {-60, 0, 20}, b \in {-60, 0, 20}}

\* a Hessian: its imaginary frequencies and its imaginary normal mode
Hessians == {[is_none |-> FALSE, freqs |-> f, mode |-> m] : f \in ImagFreqs, m \in Modes}

\* Species.imaginary_frequencies
imaginary_frequencies(h) == IF IsNone(h) THEN NoneV ELSE h.freqs

\* Species.normal_mode(mode_number): None without a Hessian
normal_mode(h) == IF IsNone(h) THEN NoneV ELSE ListV(h.mode)

\* species.distance(i, j)
distance(coords, bond) == Abs(coords[bond[1] + 1] - coords[bond[2] + 1])

\* np.max(np.linalg.norm(coords - disp_coords, axis=1))
RECURSIVE max_norm(_, _)
max_norm(coords, disp_coords) ==
    IF coords = <<>> THEN 0
    ELSE LET d == Abs(Head(coords) - Head(disp_coords))
             r == max_norm(Tail(coords), Tail(disp_coords))
         IN  IF d > r THEN d ELSE r

\* for _ in range(20): stop if no atom is displaced by max_atom_disp or more,
\* else take disp_factor / 20 of the mode off
RECURSIVE shrink_displacement(_, _, _, _, _, _)
shrink_displacement(coords, disp_coords, disp_factor, mode, max_atom_disp, left) ==
    IF left = 0 THEN disp_coords
    ELSE IF max_norm(coords, disp_coords) < max_atom_disp THEN disp_coords
    ELSE shrink_displacement(coords,
                             [a \in 1..Len(coords) |->
                                disp_coords[a] - (disp_factor * mode[a]) \div 20],
                             disp_factor, mode, max_atom_disp, left - 1)

\* mutant: the displacement is not capped
displaced_species_uncapped(coords, mode, disp_factor, max_atom_disp) ==
    IF IsNone(mode) THEN NoneV
    ELSE [is_none |-> FALSE,
          coords |-> [a \in 1..Len(coords) |-> coords[a] + disp_factor * mode.list[a]]]

\* displaced_species_along_mode: None if there is no normal mode, else a new
\* species at the displaced (and capped) coordinates
displaced_species_along_mode(coords, mode, disp_factor, max_atom_disp) ==
    IF IsNone(mode) THEN NoneV
    ELSE [is_none |-> FALSE,
          coords |-> shrink_displacement(
                         coords,
                         [a \in 1..Len(coords) |-> coords[a] + disp_factor * mode.list[a]],
                         disp_factor, mode.list, max_atom_disp, 20)]

\* mutant: the displaced species shares its atoms with the species it was
\* made from, which is moved with it
coords_moved_with_displaced(coords, disp_coords) == disp_coords

\* the coordinates of the species itself once a displaced species was made
\* from it: coords.copy() and species.atoms.copy() leave them alone
coords_after_displacement(coords, disp_coords) == coords

\* fbond_bbond_correct_disps for one displaced species
correct_disps(coords, p_coords, br, delta_threshold) ==
    [a \in 1..n_fbonds(br) |->
        distance(coords, br.fbonds[a]) - distance(p_coords, br.fbonds[a]) > delta_threshold]
    \o
    [a \in 1..n_bbonds(br) |->
        distance(p_coords, br.bbonds[a]) - distance(coords, br.bbonds[a]) > delta_threshold]

\* all(...) and any(...) of a list of booleans
all(l) == \A a \in 1..Len(l) : l[a]

any(l) == \E a \in 1..Len(l) : l[a]

\* mutant: one bond with the correct displacement is enough whatever req_all
one_correct_disp_suffices(l, req_all) == any(l)

\* the two returns inside the loop over (f_species, b_species)
product_has_correct_disps(l, req_all) == (all(l) /\ req_all) \/ (~req_all /\ any(l))

\* imag_mode_has_correct_displacement(disp_mag=1.0, delta_threshold, req_all);
\* other is what imag_mode_generates_other_bonds answers
imag_mode_has_correct_displacement(coords, mode, br, other, delta_threshold, req_all) ==
    LET f_species == displaced_species_along_mode(coords, mode, 1, 50)
        b_species == displaced_species_along_mode(coords, mode, -1, 50)
    IN  IF other THEN FALSE
        ELSE \/ product_has_correct_disps(
                    correct_disps(coords, f_species.coords, br, delta_threshold), req_all)
             \/ product_has_correct_disps(
                    correct_disps(coords, b_species.coords, br, delta_threshold), req_all)

\* mutant: the bond rearrangement is not looked at
br_never_missing(br_set) == FALSE

\* if self.bond_rearrangement is None: raise ValueError
br_missing(br_set) == ~br_set

\* mutant: no imaginary frequency is too small
never_too_small(freq, threshold) == FALSE

\* if imag_freqs[0] > Config.min_imag_freq: return False
too_small(freq, threshold) == freq > threshold

\* mutant: the link check is made whatever the strict test says
always_runs_link_check(strict_ok) == TRUE

\* has_correct_imag_mode goes on to the link check when the strict test fails
runs_link_check(strict_ok) == ~strict_ok

\* what optimising a displaced molecule can give: no atoms in the output, or
\* a structure with the graph of the reactant, of the product, or another
OptOutcomes == {"AtomsNotFound", "R", "P", "X"}

\* mutant: the optimisation is not guarded
nothing_caught(e) == FALSE

\* except ex.AtomsNotFound: return False
caught(e) == e = "AtomsNotFound"

\* species_are_isomorphic(mol, reactant) and species_are_isomorphic(mol, product)
species_are_isomorphic(mol, which) == mol.graph = which

\* mutant: only forwards to the product and backwards to the reactant counts
f_to_p_and_b_to_r_only(forwards, backwards) ==
    IF forwards.atoms_none \/ backwards.atoms_none THEN FALSE
    ELSE species_are_isomorphic(backwards, "R") /\ species_are_isomorphic(forwards, "P")

\* f_b_isomorphic_to_r_p(forwards, backwards, reactant, product)
f_b_isomorphic_to_r_p(forwards, backwards) ==
    IF forwards.atoms_none \/ backwards.atoms_none THEN FALSE
    ELSE IF species_are_isomorphic(backwards, "R") /\ species_are_isomorphic(forwards, "P")
    THEN TRUE
    ELSE IF species_are_isomorphic(forwards, "R") /\ species_are_isomorphic(backwards, "P")
    THEN TRUE
    ELSE FALSE

\* the properties and the method a caller can evaluate
Entries ==
    {"could_have_correct_imag_mode", "has_correct_imag_mode",
     "imag_mode_links_reactant_products"}

\* the optimisations the link check can ask for: (method, molecule)
OptKeys == (1..2) \X (1..2)

\* a displaced species as the link check holds it
Mol(sp) == [is_none |-> FALSE, atoms_none |-> FALSE, graph |-> "TS", coords |-> sp.coords]

\* the search is not running
SearchIdle ==
    /\ pc = "off"
    /\ exc = ""
    /\ rtype = "Substitution"
    /\ prods_charged = FALSE
    /\ n_molecules = 1
    /\ make_ts_template = FALSE
    /\ bond_rearrangs = NoneV
    /\ name = 0
    /\ r_tss = NoneV
    /\ r_ts = NoneV
    /\ pose = 0
    /\ t_pose = 0
    /\ i = 0
    /\ tss = <<>>
    /\ find_ret = NoneV
    /\ in_trunc = FALSE
    /\ t_rearrs = NoneV
    /\ t_j = 0
    /\ k = 0
    /\ att = NoAttempt
    /\ ts = NoneV
    /\ get_ret = NoneV
    /\ templates = 0
    /\ calls = <<>>
    /\ invoked = <<>>
    /\ failed = {}
    /\ succeeded = <<>>
    /\ g_br = BondRearrangement(0, 0, 1)
    /\ yielded = <<>>

\* a transition state as TSbase.__init__ leaves it, with or without a Hessian
InitVal ==
    /\ AuxIdle
    /\ SearchIdle
    /\ v_pc = "v_idle"
    /\ v_entry \in Entries
    /\ v_result = FALSE
    /\ v_exc = ""
    /\ v_results = <<>>
    /\ ts_br_set \in BOOLEAN
    /\ ts_reactant \in BOOLEAN
    /\ ts_product \in BOOLEAN
    /\ hess_oracle \in Hessians \cup {NoneV}
    /\ ts_hessian \in {NoneV, hess_oracle}
    /\ ts_coords = Coordinates
    /\ conformers = 0
    /\ other_bonds \in BOOLEAN
    /\ opt_memo = [key \in OptKeys |-> "unasked"]
    /\ lk_method = 0
    /\ lk_mol = 0
    /\ f_mol = NoneV
    /\ b_mol = NoneV
    /\ hess_calcs = 0
    /\ disp_checks = 0
    /\ opts = 0

\* an exception leaves the evaluation
RaiseVal(e) ==
    /\ v_pc' = "v_raised"
    /\ v_exc' = e
    /\ v_result' = v_result

\* return r to the caller of the property or method
ReturnVal(r) ==
    /\ v_pc' = "v_ret"
    /\ v_result' = r
    /\ v_exc' = v_exc

\* could_have_correct_imag_mode returns r: to the caller, or to
\* has_correct_imag_mode, which returns False or goes on to the strict test
ReturnCheap(r) ==
    IF v_entry = "has_correct_imag_mode" /\ r
    THEN /\ v_pc' = "hc_strict"
         /\ UNCHANGED <<v_result, v_exc>>
    ELSE ReturnVal(r)

\* the caller evaluates the property or calls the method; a second evaluation
\* is made of a transition state that evaluated to True
v_call ==
    /\ v_pc = "v_idle"
    /\ Len(v_results) < MaxEvals
    /\ v_results # <<>> => v_results[Len(v_results)]
    /\ v_pc' = IF v_entry = "imag_mode_links_reactant_products" THEN "lk_begin" ELSE "ch_br"
    /\ hess_calcs' = 0
    /\ disp_checks' = 0
    /\ opts' = 0
    /\ UNCHANGED <<search, aux, v_entry, v_result, v_exc, v_results, tsbase, oracle, links>>

\* could_have_correct_imag_mode: the bond rearrangement must be set
could_have_check_br ==
    /\ v_pc = "ch_br"
    /\ IF br_missing(ts_br_set)
       THEN RaiseVal("ValueError")
       ELSE /\ v_pc' = "ch_hess"
            /\ UNCHANGED <<v_result, v_exc>>
    /\ UNCHANGED <<search, aux, v_entry, v_results, tsbase, oracle, links, counts>>

\* if self.hessian is None: self._run_hess_calculation(method=get_hmethod())
could_have_hessian ==
    /\ v_pc = "ch_hess"
    /\ IF IsNone(ts_hessian)
       THEN /\ hess_calcs' = hess_calcs + 1
            /\ IF get_hessian(~IsNone(hess_oracle)) # ""
               THEN /\ RaiseVal(get_hessian(~IsNone(hess_oracle)))
                    /\ ts_hessian' = ts_hessian
               ELSE /\ ts_hessian' = hess_oracle
                    /\ v_pc' = "ch_freqs"
                    /\ UNCHANGED <<v_result, v_exc>>
       ELSE /\ v_pc' = "ch_freqs"
            /\ UNCHANGED <<v_result, v_exc, ts_hessian, hess_calcs>>
    /\ UNCHANGED <<search, aux, v_entry, v_results, ts_br_set, ts_reactant, ts_product,
                   ts_coords, conformers, oracle, links, disp_checks, opts>>

\* no imaginary frequency, or one too small to be significant: return False
could_have_freqs ==
    /\ v_pc = "ch_freqs"
    /\ LET imag_freqs == imaginary_frequencies(ts_hessian)
       IN  IF IsNone(imag_freqs)
           THEN ReturnCheap(FALSE)
           ELSE IF too_small(imag_freqs.list[1], min_imag_freq)
           THEN ReturnCheap(FALSE)
           ELSE /\ v_pc' = "ch_disp"
                /\ UNCHANGED <<v_result, v_exc>>
    /\ UNCHANGED <<search, aux, v_entry, v_results, tsbase, oracle, links, counts>>

\* imag_mode_has_correct_displacement(delta_threshold=0.05, req_all=False)
could_have_displacement ==
    /\ v_pc = "ch_disp"
    /\ disp_checks' = disp_checks + 1
    /\ IF ~ts_br_set
       THEN /\ RaiseVal("AttributeError")
            /\ ts_coords' = ts_coords
       ELSE /\ ReturnCheap(imag_mode_has_correct_displacement(
                               ts_coords, normal_mode(ts_hessian), ActiveBonds,
                               other_bonds, 5, FALSE))
            /\ ts_coords' = coords_after_displacement(
                               ts_coords,
                               displaced_species_along_mode(
                                   ts_coords, normal_mode(ts_hessian), -1, 50).coords)
    /\ UNCHANGED <<search, aux, v_entry, v_results, ts_br_set, ts_reactant, ts_product,
                   ts_hessian, conformers, oracle, links, hess_calcs, opts>>

\* has_correct_imag_mode: imag_mode_has_correct_displacement(req_all=True);
\* True is returned at once, else the link check is made
has_correct_strict ==
    /\ v_pc = "hc_strict"
    /\ disp_checks' = disp_checks + 1
    /\ IF runs_link_check(imag_mode_has_correct_displacement(
                              ts_coords, normal_mode(ts_hessian), ActiveBonds,
                              other_bonds, 30, TRUE))
       THEN /\ v_pc' = "lk_begin"
            /\ UNCHANGED <<v_result, v_exc>>
       ELSE ReturnVal(TRUE)
    /\ ts_coords' = coords_after_displacement(
                       ts_coords,
                       displaced_species_along_mode(
                           ts_coords, normal_mode(ts_hessian), -1, 50).coords)
    /\ UNCHANGED <<search, aux, v_entry, v_results, ts_br_set, ts_reactant, ts_product,
                   ts_hessian, conformers, oracle, links, hess_calcs, opts>>

\* imag_mode_links_reactant_products up to its loop: reactant and product
\* must be set; conformers are populated; the two displaced species are made
links_begin ==
    /\ v_pc = "lk_begin"
    /\ IF ~ts_reactant \/ ~ts_product
       THEN /\ RaiseVal("ValueError")
            /\ UNCHANGED <<ts_coords, conformers, links>>
       ELSE LET f == displaced_species_along_mode(ts_coords, normal_mode(ts_hessian), 1, 20)
                b == displaced_species_along_mode(ts_coords, normal_mode(ts_hessian), -1, 20)
            IN  /\ conformers' = conformers + 1
                /\ IF IsNone(f)
                   THEN /\ RaiseVal("AttributeError")
                        /\ UNCHANGED <<ts_coords, links>>
                   ELSE /\ f_mol' = Mol(f)
                        /\ b_mol' = Mol(b)
                        /\ lk_method' = 1
                        /\ lk_mol' = 1
                        /\ ts_coords' = coords_after_displacement(ts_coords, b.coords)
                        /\ v_pc' = "lk_opt"
                        /\ UNCHANGED <<v_result, v_exc>>
    /\ UNCHANGED <<search, aux, v_entry, v_results, ts_br_set, ts_reactant, ts_product,
                   ts_hessian, oracle, counts>>

\* mol.optimise(method=method, keywords=method.keywords.low_opt, reset_graph=True)
\* for the next of (f_mol, b_mol); the oracle answers the same question alike
links_optimise ==
    /\ v_pc = "lk_opt"
    /\ opts' = opts + 1
    /\ \E o \in OptOutcomes :
         /\ opt_memo[<<lk_method, lk_mol>>] \in {"unasked", o}
         /\ opt_memo' = [opt_memo EXCEPT ![<<lk_method, lk_mol>>] = o]
         /\ IF o = "AtomsNotFound"
            THEN /\ IF caught(o) THEN ReturnVal(FALSE) ELSE RaiseVal(o)
                 /\ UNCHANGED links
            ELSE /\ f_mol' = IF lk_mol = 1 THEN [f_mol EXCEPT !.graph = o] ELSE f_mol
                 /\ b_mol' = IF lk_mol = 2 THEN [b_mol EXCEPT !.graph = o] ELSE b_mol
                 /\ lk_mol' = IF lk_mol = 1 THEN 2 ELSE lk_mol
                 /\ lk_method' = lk_method
                 /\ v_pc' = IF lk_mol = 1 THEN "lk_opt" ELSE "lk_iso"
                 /\ UNCHANGED <<v_result, v_exc>>
    /\ UNCHANGED <<search, aux, v_entry, v_results, tsbase, hess_oracle, other_bonds,
                   hess_calcs, disp_checks>>

\* if f_b_isomorphic_to_r_p(f_mol, b_mol, reactant, product): return True;
\* else the next method, and False after the last
links_isomorphic ==
    /\ v_pc = "lk_iso"
    /\ IF f_b_isomorphic_to_r_p(f_mol, b_mol)
       THEN /\ ReturnVal(TRUE)
            /\ UNCHANGED <<lk_method, lk_mol>>
       ELSE IF lk_method = 1
       THEN /\ lk_method' = 2
            /\ lk_mol' = 1
            /\ v_pc' = "lk_opt"
            /\ UNCHANGED <<v_result, v_exc>>
       ELSE /\ ReturnVal(FALSE)
            /\ UNCHANGED <<lk_method, lk_mol>>
    /\ UNCHANGED <<search, aux, v_entry, v_results, tsbase, oracle, f_mol, b_mol, counts>>

\* the caller has the value of the property
v_return ==
    /\ v_pc = "v_ret"
    /\ v_results' = Append(v_results, v_result)
    /\ v_pc' = "v_idle"
    /\ UNCHANGED <<search, aux, v_entry, v_result, v_exc, tsbase, oracle, links, counts>>

NextVal ==
    \/ v_call
    \/ could_have_check_br
    \/ could_have_hessian
    \/ could_have_freqs
    \/ could_have_displacement
    \/ has_correct_strict
    \/ links_begin
    \/ links_optimise
    \/ links_isomorphic
    \/ v_return

SpecVal == InitVal /\ [][NextVal]_vars

\* --------------------------------- the displacement functions alone ----
\* six atoms on a line, in hundredths of an Angstrom: atoms 0..3 can be
\* active, atoms 4 and 5 are spectators
DispCoordinates == <<0, 200, 400, 600, 800, 1000>>

\* atom labels of the species, atom 5 being a metal
DispLabels == <<"C", "C", "C", "C", "H", "Pd">>

\* autode.atoms.metals, as far as the species has any
metals == {"Pd"}

\* the imaginary modes: atoms 1, 2 and 3 move
DispModes ==
    {<<0, a, b, c, 0, 0>> : a \in {-60, 0, 20}, b \in {-60, 0, 20}, c \in {-60, 0, 20}}

\* the values of disp_factor and of max_atom_disp a caller passes
DispFactors == {-2, -1, 1, 2}

MaxAtomDisps == {0, 20, 50}

\* the bond rearrangements of the transition state
DispRearrs == {BondRearrangement(1, 1, 1), BondRearrangement(2, 1, 1)}

\* the bonds make_graph can find or miss beside the active ones: active atom
\* to spectator, and spectator to metal
OtherBonds == {<<1, 4>>, <<4, 5>>}

\* bond_rearrangement.active_atoms
active_atoms(br) ==
    {br.fbonds[a][b] : a \in 1..n_fbonds(br), b \in 1..2}
    \cup {br.bbonds[a][b] : a \in 1..n_bbonds(br), b \in 1..2}

\* new_bonds_in_product: the edges of the product graph that the graph of
\* the TS has not, less those to a metal if allow_mx
new_bonds_in_product(ts_graph, p_graph, labels, allow_mx) ==
    {bond \in p_graph \ ts_graph :
        allow_mx => /\ labels[bond[1] + 1] \notin metals
                    /\ labels[bond[2] + 1] \notin metals}

\* imag_mode_generates_other_bonds(ts, f_species, b_species, allow_mx)
imag_mode_generates_other_bonds(ts_graph, f_graph, b_graph, labels, br, allow_mx) ==
    \E p_graph \in {f_graph, b_graph} :
        ~ ({bond[a] : bond \in new_bonds_in_product(ts_graph, p_graph, labels, allow_mx),
                      a \in 1..2}
           \subseteq active_atoms(br))

\* a call of displaced_species_along_mode or of
\* imag_mode_has_correct_displacement with any arguments
InitDisp ==
    /\ SearchIdle
    /\ ValIdle
    /\ TrIdle
    /\ CalcIdle
    /\ RxnIdle
    /\ ExtraIdle
    /\ d_pc = "d_call"
    /\ d_entry \in {"displaced_species_along_mode", "imag_mode_has_correct_displacement"}
    /\ d_coords = DispCoordinates
    /\ d_ret = NoneV
    /\ d_ret_b = NoneV
    /\ \/ /\ d_entry = "displaced_species_along_mode"
          /\ d_mode \in {NoneV} \cup {ListV(m) : m \in DispModes}
          /\ d_factor \in DispFactors
          /\ d_cap \in MaxAtomDisps
          /\ d_br = BondRearrangement(0, 0, 1)
          /\ d_delta = 0
          /\ d_req_all = FALSE
          /\ d_ts_graph = {}
          /\ d_f_graph = {}
          /\ d_b_graph = {}
       \/ /\ d_entry = "imag_mode_has_correct_displacement"
          /\ d_mode \in {ListV(m) : m \in DispModes}
          /\ d_factor = 1
          /\ d_cap = 50
          /\ d_br \in DispRearrs
          /\ d_delta \in {5, 30}
          /\ d_req_all \in BOOLEAN
          /\ d_ts_graph \in SUBSET OtherBonds
          /\ d_f_graph \in SUBSET OtherBonds
          /\ d_b_graph \in SUBSET OtherBonds

\* displaced_species_along_mode(species, 6, disp_factor, max_atom_disp)
displace ==
    /\ d_pc = "d_call"
    /\ d_entry = "displaced_species_along_mode"
    /\ LET disp_species == displaced_species_along_mode(d_coords, d_mode, d_factor, d_cap)
       IN  /\ d_ret' = disp_species
           /\ d_coords' = IF IsNone(disp_species) THEN d_coords
                          ELSE coords_after_displacement(d_coords, disp_species.coords)
    /\ d_pc' = "d_done"
    /\ UNCHANGED <<search, val, extra, trv, calcv, rxnv, d_entry, d_mode, d_factor, d_cap, d_br,
                   d_delta, d_req_all, d_ts_graph, d_f_graph, d_b_graph, d_ret_b>>

\* displaced_species_along_mode(species, 6, -disp_factor, max_atom_disp), called
\* for the same species after the first call
displace_backward ==
    /\ d_pc = "d_done"
    /\ d_entry = "displaced_species_along_mode"
    /\ LET disp_species == displaced_species_along_mode(d_coords, d_mode, -d_factor, d_cap)
       IN  /\ d_ret_b' = disp_species
           /\ d_coords' = IF IsNone(disp_species) THEN d_coords
                          ELSE coords_after_displacement(d_coords, disp_species.coords)
    /\ d_pc' = "d_both"
    /\ UNCHANGED <<search, val, extra, trv, calcv, rxnv, d_entry, d_mode, d_factor, d_cap, d_br,
                   d_delta, d_req_all, d_ts_graph, d_f_graph, d_b_graph, d_ret>>

\* ts.imag_mode_has_correct_displacement(delta_threshold, req_all)
check_displacement ==
    /\ d_pc = "d_call"
    /\ d_entry = "imag_mode_has_correct_displacement"
    /\ d_ret' = imag_mode_has_correct_displacement(
                    d_coords, d_mode, d_br,
                    imag_mode_generates_other_bonds(d_ts_graph, d_f_graph, d_b_graph,
                                                    DispLabels, d_br, TRUE),
                    d_delta, d_req_all)
    /\ d_pc' = "d_done"
    /\ UNCHANGED <<search, val, extra, trv, calcv, rxnv, d_entry, d_coords, d_mode, d_factor, d_cap, d_br, d_delta,
                   d_req_all, d_ts_graph, d_f_graph, d_b_graph, d_ret_b>>

NextDisp ==
    \/ displace
    \/ displace_backward
    \/ check_displacement

SpecDisp == InitDisp /\ [][NextDisp]_vars

\* -------------------------------- translate_rotate_reactant alone ----
\* restarts of the minimiser made in one call
MaxIters == 2

\* n_iters, 10 unless the caller says otherwise
n_iters == MaxIters

\* the molecule of each atom of a complex of n molecules of two atoms each
TrMols(n) == [a \in 1..2 * n |-> (a - 1) \div 2]

\* the coordinates of the atoms before the call, on a line
TrCoordinates(n) == [a \in 1..2 * n |-> 100 * a]

\* res.fun: the cost the minimiser ends a restart with
Costs == {0, 1, 2}

\* res.x: a rotation (by 0 or by pi), a translation and a second rotation
PoseParams == [theta1 : {0, 1}, vec : {0, 10}, theta2 : {0, 1}]

\* Complex.rotate_mol(axis, theta, mol_index): the atoms of molecule
\* mol_index turn about the origin
rotate_mol(coords, mols, theta, mol_index) ==
    [a \in 1..Len(coords) |->
        IF mols[a] = mol_index /\ theta = 1 THEN 0 - coords[a] ELSE coords[a]]

\* Complex.translate_mol(vec, mol_index)
translate_mol(coords, mols, vec, mol_index) ==
    [a \in 1..Len(coords) |-> IF mols[a] = mol_index THEN coords[a] + vec ELSE coords[a]]

\* 0 if all(sc.a_atom in reactant.get_atom_indexes(mol_index=0)) else 1
get_attacking_mol(a_atoms, mols) ==
    IF \A a \in a_atoms : mols[a + 1] = 0 THEN 0 ELSE 1

\* mutant: a restart that only equals the lowest cost replaces it
is_not_above_min(cost, fun) == IsNone(cost) \/ fun <= cost.val

\* if min_cost is None or res.fun < min_cost
is_new_min(cost, fun) == IsNone(cost) \/ fun < cost.val

\* mutant: the translation is given to the other of the first two molecules
pose_translates_other(coords, mols, x, mol_index) ==
    rotate_mol(translate_mol(rotate_mol(coords, mols, x.theta1, mol_index),
                             mols, x.vec, 1 - mol_index),
               mols, x.theta2, mol_index)

\* rotate_mol, translate_mol and rotate_mol again with the optimal parameters
apply_pose(coords, mols, x, mol_index) ==
    rotate_mol(translate_mol(rotate_mol(coords, mols, x.theta1, mol_index),
                             mols, x.vec, mol_index),
               mols, x.theta2, mol_index)

\* a reactant complex of one to three molecules and its substitution centres
InitTr ==
    /\ SearchIdle
    /\ ValIdle
    /\ DispIdle
    /\ CalcIdle
    /\ RxnIdle
    /\ ExtraIdle
    /\ tr_pc = "tr_start"
    /\ tr_n_mols \in 1..3
    /\ tr_a_atoms \in {{0}, {2}, {0, 2}}
    /\ tr_coords = TrCoordinates(tr_n_mols)
    /\ attacking_mol = 0
    /\ min_cost = NoneV
    /\ opt_x = NoneV
    /\ restarts = <<>>
    /\ logged_cost = NoneV

\* the early return, or the choice of the attacking molecule
translate_rotate_begin ==
    /\ tr_pc = "tr_start"
    /\ IF tr_n_mols < 2
       THEN /\ tr_pc' = "tr_done"
            /\ UNCHANGED attacking_mol
       ELSE /\ attacking_mol' = get_attacking_mol(tr_a_atoms, TrMols(tr_n_mols))
            /\ tr_pc' = "tr_loop"
    /\ UNCHANGED <<search, val, extra, dispv, calcv, rxnv, tr_n_mols, tr_a_atoms, tr_coords, min_cost, opt_x,
                   restarts, logged_cost>>

\* one pass of for _ in range(n_iters): a minimisation from a random start
translate_rotate_restart ==
    /\ tr_pc = "tr_loop"
    /\ Len(restarts) < n_iters
    /\ \E fun \in Costs, x \in PoseParams :
         /\ restarts' = Append(restarts, [fun |-> fun, x |-> x])
         /\ IF is_new_min(min_cost, fun)
            THEN /\ min_cost' = [is_none |-> FALSE, val |-> fun]
                 /\ opt_x' = [is_none |-> FALSE, val |-> x]
            ELSE UNCHANGED <<min_cost, opt_x>>
    /\ UNCHANGED <<search, val, extra, dispv, calcv, rxnv, tr_pc, tr_n_mols, tr_a_atoms, tr_coords,
                   attacking_mol, logged_cost>>

\* after the loop: log the minimum cost and move the attacking molecule
translate_rotate_apply ==
    /\ tr_pc = "tr_loop"
    /\ Len(restarts) = n_iters
    /\ logged_cost' = min_cost
    /\ tr_coords' = apply_pose(tr_coords, TrMols(tr_n_mols), opt_x.val, attacking_mol)
    /\ tr_pc' = "tr_done"
    /\ UNCHANGED <<search, val, extra, dispv, calcv, rxnv, tr_n_mols, tr_a_atoms, attacking_mol, min_cost, opt_x,
                   restarts>>

NextTr ==
    \/ translate_rotate_begin
    \/ translate_rotate_restart
    \/ translate_rotate_apply

SpecTr == InitTr /\ [][NextTr]_vars

\* ------------------------------------------------------ calculations ----
\* the longest the external program is watched running
MaxWait == 2

\* the most times a calculation is run
MaxRuns == 2

\* the atoms of the molecule
CalcAtoms == 0..3

\* the bonds the molecule can have
MolBonds == {<<1, 2>>, <<2, 3>>}

\* the values of bond_ids_to_add: None, no bond, one or two active bonds
ActiveBondLists ==
    {NoneV, ListV(<<>>), ListV(<<<<0, 1>>>>), ListV(<<<<0, 1>>, <<1, 2>>>>)}

\* a line of an output file: "T" has 'ORCA TERMINATED NORMALLY', "N" has 'The
\* optimization did not converge', "E" has 'FINAL SINGLE POINT ENERGY', "-"
\* has none of them
Lines(n, line) == [a \in 1..n |-> line]

\* the output files the external program can leave: empty, complete, with no
\* energy, cut short, not converged, and two long ones with the termination
\* line 32 and 33 lines from the end
OutputFiles ==
    {<<>>, <<"E", "T">>, <<"T">>, <<"E", "-">>, <<"E", "N">>,
     <<"T">> \o Lines(31, "-"), <<"T">> \o Lines(32, "-")}

\* any(substring in line for substring in termination_strings)
has_termination_string(line) == line \in {"T", "N"}

\* for n_line, line in enumerate(reversed(file_lines)): True at a line with a
\* termination string, False once n_line > 30 or the lines are used up
RECURSIVE scan_reversed_lines(_, _)
scan_reversed_lines(lines, n_line) ==
    IF n_line >= Len(lines) THEN FALSE
    ELSE IF has_termination_string(lines[Len(lines) - n_line]) THEN TRUE
    ELSE IF n_line > 30 THEN FALSE
    ELSE scan_reversed_lines(lines, n_line + 1)

\* mutant: only the last line of the output is looked at
terminated_on_last_line(lines) ==
    Len(lines) > 0 /\ has_termination_string(lines[Len(lines)])

\* ORCA.calculation_terminated_normally
method_calculation_terminated_normally(lines) == scan_reversed_lines(lines, 0)

\* ORCA.get_energy: the last energy printed, or CouldNotGetProperty
method_get_energy(lines) ==
    IF \E a \in 1..Len(lines) : lines[a] = "E" THEN "energy" ELSE "CouldNotGetProperty"

\* Calculation.calculation_terminated_normally
calculation_terminated_normally(lines) ==
    IF IsNone(lines) THEN FALSE ELSE method_calculation_terminated_normally(lines.list)

\* mutant: the energy is read whatever terminated_normally says
energy_whatever_termination(terminated, lines) ==
    IF IsNone(lines) THEN "CouldNotGetProperty" ELSE method_get_energy(lines.list)

\* Calculation.get_energy
get_energy(terminated, lines) ==
    IF terminated THEN method_get_energy(lines.list) ELSE "None"

\* molecule.get_bonded_atoms_to_i(atom)
get_bonded_atoms_to_i(graph, atom) ==
    {b \in CalcAtoms : <<atom, b>> \in graph \/ <<b, atom>> \in graph}

\* mutant: only the active atoms are core atoms
active_atoms_only(bonds, graph) ==
    {bonds[a][b] : a \in 1..Len(bonds), b \in 1..2}

\* Calculation._get_core_atoms: the set core_atoms before it is made a list
get_core_atoms(bonds, graph) ==
    LET active == {bonds[a][b] : a \in 1..Len(bonds), b \in 1..2}
    IN  active \cup UNION {get_bonded_atoms_to_i(graph, atom) : atom \in active}

\* list(core_atoms): the elements of the set, once each, in any order
list_of(set) ==
    {l \in [1..Cardinality(set) -> set] : \A a \in set : \E b \in DOMAIN l : l[b] = a}

\* the arguments of Calculation(...), the method and the files on disk
InitCalc ==
    /\ SearchIdle
    /\ ValIdle
    /\ DispIdle
    /\ TrIdle
    /\ RxnIdle
    /\ ExtraIdle
    /\ c_pc = "c_new"
    /\ c_exc = ""
    /\ xyzs_none \in BOOLEAN
    /\ bond_ids_to_add \in ActiveBondLists
    /\ mol_graph \in SUBSET MolBonds
    /\ core_atoms = NoneV
    /\ method_available \in BOOLEAN
    /\ input_filename = FALSE
    /\ input_file = FALSE
    /\ output_file \in {NoneV} \cup {ListV(f) : f \in OutputFiles}
    /\ output_file_exists = FALSE
    /\ output_file_lines = NoneV
    /\ terminated_normally = FALSE
    /\ waited = 0
    /\ n_popen = 0
    /\ energy_ret = "unasked"
    /\ runs = <<>>

\* Calculation.__init__: the core atoms are found if there are xyzs and
\* bond_ids_to_add is neither None nor empty
calc_init ==
    /\ c_pc = "c_new"
    /\ IF ~xyzs_none /\ ~IsNone(bond_ids_to_add) /\ Len(bond_ids_to_add.list) > 0
       THEN \E l \in list_of(get_core_atoms(bond_ids_to_add.list, mol_graph)) :
               core_atoms' = ListV(l)
       ELSE UNCHANGED core_atoms
    /\ c_pc' = "c_made"
    /\ UNCHANGED <<search, val, extra, dispv, trv, rxnv, runs, c_exc, xyzs_none, bond_ids_to_add, mol_graph,
                   method_available, input_filename, input_file, output_file,
                   output_file_exists, output_file_lines, terminated_normally, waited,
                   n_popen, energy_ret>>

\* run: self.generate_input(); the method names the input file and writes it
run_generate_input ==
    /\ c_pc = "c_made"
    /\ \E named \in BOOLEAN, written \in BOOLEAN :
         /\ written => named
         /\ input_filename' = named
         /\ input_file' = written
    /\ c_pc' = "execute"
    /\ UNCHANGED <<search, val, extra, dispv, trv, rxnv, runs, c_exc, xyzs_none, bond_ids_to_add, mol_graph,
                   core_atoms, method_available, output_file, output_file_exists,
                   output_file_lines, terminated_normally, waited, n_popen, energy_ret>>

\* mutant: the program is launched whatever output there is
always_launches(exists, lines) == FALSE

\* if self.output_file_exists: if self.calculation_terminated_normally():
\* the output there is is used and nothing is launched
skips_program(exists, lines) == exists /\ calculation_terminated_normally(lines)

\* execute_calculation up to subprocess.wait()
execute_calculation ==
    /\ c_pc = "execute"
    /\ IF ~input_filename
       THEN /\ c_exc' = "NoInputError"
            /\ c_pc' = "c_raised"
            /\ UNCHANGED <<output_file, output_file_exists, output_file_lines, n_popen>>
       ELSE IF ~method_available
       THEN /\ c_exc' = "exit"
            /\ c_pc' = "c_exit"
            /\ UNCHANGED <<output_file, output_file_exists, output_file_lines, n_popen>>
       ELSE IF ~input_file
       THEN /\ c_pc' = "finish"
            /\ UNCHANGED <<c_exc, output_file, output_file_exists, output_file_lines, n_popen>>
       ELSE /\ output_file_exists' = (output_file_exists \/ ~IsNone(output_file))
            /\ IF skips_program(output_file_exists', output_file)
               THEN /\ output_file_lines' = output_file
                    /\ c_pc' = "finish"
                    /\ UNCHANGED <<output_file, n_popen>>
               ELSE /\ output_file_lines' = output_file
                    /\ output_file' = ListV(<<>>)
                    /\ n_popen' = n_popen + 1
                    /\ c_pc' = "wait"
            /\ UNCHANGED c_exc
    /\ UNCHANGED <<search, val, extra, dispv, trv, rxnv, runs, xyzs_none, bond_ids_to_add, mol_graph, core_atoms,
                   method_available, input_filename, input_file, terminated_normally, waited,
                   energy_ret>>

\* the external program is still running and subprocess.wait() still waiting
subprocess_runs ==
    /\ c_pc = "wait"
    /\ waited < MaxWait
    /\ waited' = waited + 1
    /\ UNCHANGED <<search, val, extra, dispv, trv, rxnv, runs, c_pc, c_exc, xyzs_none, bond_ids_to_add, mol_graph,
                   core_atoms, method_available, input_filename, input_file, output_file,
                   output_file_exists, output_file_lines, terminated_normally, n_popen,
                   energy_ret>>

\* the external program exits: wait() returns, the other files are removed
\* and the output is read
subprocess_exits ==
    /\ c_pc = "wait"
    /\ \E f \in OutputFiles :
         /\ output_file' = ListV(f)
         /\ output_file_lines' = ListV(f)
    /\ c_pc' = "finish"
    /\ UNCHANGED <<search, val, extra, dispv, trv, rxnv, runs, c_exc, xyzs_none, bond_ids_to_add, mol_graph,
                   core_atoms, method_available, input_filename, input_file,
                   output_file_exists, terminated_normally, waited, n_popen, energy_ret>>

\* run: self.terminated_normally = self.calculation_terminated_normally()
run_finish ==
    /\ c_pc = "finish"
    /\ terminated_normally' = calculation_terminated_normally(output_file_lines)
    /\ runs' = Append(runs, [terminated_normally |-> terminated_normally', n_popen |-> n_popen])
    /\ c_pc' = "c_ran"
    /\ UNCHANGED <<search, val, extra, dispv, trv, rxnv, c_exc, xyzs_none, bond_ids_to_add, mol_graph,
                   core_atoms, method_available, input_filename, input_file, output_file,
                   output_file_exists, output_file_lines, waited, n_popen, energy_ret>>

\* calc.run() is called again
run_again ==
    /\ c_pc = "c_ran"
    /\ Len(runs) < MaxRuns
    /\ waited' = 0
    /\ c_pc' = "c_made"
    /\ UNCHANGED <<search, val, extra, dispv, trv, rxnv, runs, c_exc, xyzs_none, bond_ids_to_add,
                   mol_graph, core_atoms, method_available, input_filename, input_file,
                   output_file, output_file_exists, output_file_lines, terminated_normally,
                   n_popen, energy_ret>>

\* calc.get_energy(), after run returned or raised
calc_get_energy ==
    /\ c_pc \in {"c_ran", "c_raised"}
    /\ energy_ret' = get_energy(terminated_normally, output_file_lines)
    /\ c_pc' = "c_end"
    /\ UNCHANGED <<search, val, extra, dispv, trv, rxnv, runs, c_exc, xyzs_none, bond_ids_to_add, mol_graph,
                   core_atoms, method_available, input_filename, input_file, output_file,
                   output_file_exists, output_file_lines, terminated_normally, waited,
                   n_popen>>

NextCalc ==
    \/ calc_init
    \/ run_generate_input
    \/ execute_calculation
    \/ subprocess_runs
    \/ subprocess_exits
    \/ run_finish
    \/ run_again
    \/ calc_get_energy

SpecCalc == InitCalc /\ [][NextCalc]_vars

\* --------------------------------------- construction of a Reaction ----
\* the solvents a molecule or a reaction can have; "None" is the gas phase
Solvents == {"None", "water", "dcm"}

\* a molecule: its class (Reactant or Product), its atoms, the bonds of its
\* graph, its charge and its solvent
Molecules ==
    {m \in [cls : {"Reactant", "Product"}, n_atoms : {1, 2}, n_bonds : {0, 1}, charge : {0, 1},
            solvent : Solvents] : m.n_bonds < m.n_atoms}

\* one or two molecules of the class c
MoleculeLists(c) == UNION {[1..n -> {m \in Molecules : m.cls = c}] : n \in 1..2}

\* sum(...) of a list of numbers
RECURSIVE sum(_)
sum(l) == IF l = <<>> THEN 0 ELSE Head(l) + sum(Tail(l))

\* reactions.classify(reactants, products)
classify(rs, ps) ==
    IF Len(rs) = 2 /\ Len(ps) = 1 THEN "Addition"
    ELSE IF Len(rs) = 1 /\ Len(ps) = 2 THEN "Dissociation"
    ELSE IF Len(rs) = 2 /\ Len(ps) = 2 THEN "Substitution"
    ELSE "Rearrangement"

\* what _check_solvent does with self.solvent s and the molecules mols: the
\* error raised ("" if none), self.solvent and the solvents of the molecules
check_solvent(s, mols) ==
    LET all_none == \A a \in 1..Len(mols) : mols[a].solvent = "None"
        none_none == \A a \in 1..Len(mols) : mols[a].solvent # "None"
        all_same == \A a \in 1..Len(mols) : mols[a].solvent = mols[1].solvent
        gas == s = "None" /\ all_none
        mismatch == s = "None" /\ ~all_none /\ none_none /\ ~all_same
        s2 == IF s = "None" /\ ~all_none /\ none_none THEN mols[1].solvent ELSE s
    IN  IF gas THEN [exc |-> "", solvent |-> s, mols |-> mols]
        ELSE IF mismatch THEN [exc |-> "SolventsDontMatch", solvent |-> s, mols |-> mols]
        ELSE IF s2 = "None" THEN [exc |-> "AttributeError", solvent |-> s2, mols |-> mols]
        ELSE [exc |-> "", solvent |-> s2,
              mols |-> [a \in 1..Len(mols) |-> [mols[a] EXCEPT !.solvent = s2]]]

\* sum(n_reac_atoms) != sum(n_prod_atoms)
atoms_unbalanced(rs, ps) ==
    sum([a \in 1..Len(rs) |-> rs[a].n_atoms]) # sum([a \in 1..Len(ps) |-> ps[a].n_atoms])

\* mutant: the charges are not compared
charges_not_compared(rs, ps) == FALSE

\* sum(reac_charges) != sum(prod_charges)
charges_unbalanced(rs, ps) ==
    sum([a \in 1..Len(rs) |-> rs[a].charge]) # sum([a \in 1..Len(ps) |-> ps[a].charge])

\* mutant: the reactants and products are also swapped when they have as many
\* bonds
products_have_no_fewer_bonds(rs, ps) ==
    sum([a \in 1..Len(rs) |-> rs[a].n_bonds]) - sum([a \in 1..Len(ps) |-> ps[a].n_bonds]) <= 0

\* delta_n_bonds < 0 in _check_rearrangement
products_have_more_bonds(rs, ps) ==
    sum([a \in 1..Len(rs) |-> rs[a].n_bonds]) - sum([a \in 1..Len(ps) |-> ps[a].n_bonds]) < 0

\* the molecules given to Reaction(...) and its solvent
InitRxn ==
    /\ SearchIdle
    /\ ValIdle
    /\ DispIdle
    /\ TrIdle
    /\ CalcIdle
    /\ ExtraIdle
    /\ rx_pc = "rx_new"
    /\ rx_exc = ""
    /\ reacs \in MoleculeLists("Reactant")
    /\ prods \in MoleculeLists("Product")
    /\ rx_type = ""
    /\ solvent \in Solvents
    /\ charge = NoneV
    /\ switched_reacs_prods = FALSE

\* Reaction.__init__ up to and with self._check_solvent()
rxn_check_solvent ==
    /\ rx_pc = "rx_new"
    /\ rx_type' = classify(reacs, prods)
    /\ LET res == check_solvent(solvent, reacs \o prods)
       IN  /\ rx_exc' = res.exc
           /\ solvent' = res.solvent
           /\ reacs' = SubSeq(res.mols, 1, Len(reacs))
           /\ prods' = SubSeq(res.mols, Len(reacs) + 1, Len(reacs) + Len(prods))
           /\ rx_pc' = IF res.exc = "" THEN "rx_balance" ELSE "rx_raised"
    /\ UNCHANGED <<search, val, extra, dispv, trv, calcv, charge, switched_reacs_prods>>

\* self._check_balance()
rxn_check_balance ==
    /\ rx_pc = "rx_balance"
    /\ IF atoms_unbalanced(reacs, prods) \/ charges_unbalanced(reacs, prods)
       THEN /\ rx_exc' = "UnbalancedReaction"
            /\ rx_pc' = "rx_raised"
            /\ UNCHANGED charge
       ELSE /\ charge' = [is_none |-> FALSE,
                          val |-> sum([a \in 1..Len(reacs) |-> reacs[a].charge])]
            /\ rx_pc' = "rx_switch"
            /\ UNCHANGED rx_exc
    /\ UNCHANGED <<search, val, extra, dispv, trv, calcv, reacs, prods, rx_type, solvent,
                   switched_reacs_prods>>

\* the end of __init__: switch_addition for an addition, and
\* _check_rearrangement, which swaps if the products have more bonds in all
rxn_switch ==
    /\ rx_pc = "rx_switch"
    /\ IF rx_type = "Addition"
       THEN /\ rx_type' = "Dissociation"
            /\ reacs' = prods
            /\ prods' = reacs
            /\ switched_reacs_prods' = TRUE
       ELSE IF rx_type = "Rearrangement" /\ products_have_more_bonds(reacs, prods)
       THEN /\ reacs' = prods
            /\ prods' = reacs
            /\ switched_reacs_prods' = TRUE
            /\ UNCHANGED rx_type
       ELSE UNCHANGED <<reacs, prods, rx_type, switched_reacs_prods>>
    /\ rx_pc' = "rx_made"
    /\ UNCHANGED <<search, val, extra, dispv, trv, calcv, rx_exc, solvent, charge>>

NextRxn ==
    \/ rxn_check_solvent
    \/ rxn_check_balance
    \/ rxn_switch

SpecRxn == InitRxn /\ [][NextRxn]_vars

\* ------------------------------------------ the Hessian of an output ----
\* the columns of the Hessian an ORCA .hess file prints side by side
ChunkWidth == 5

\* the numbers of atoms of the molecule of the calculation
HessAtoms == {1, 2}

\* the dimensions a Hessian section can declare or hold
HessDims == 1..8

\* the .hess files: missing, without a $hessian section, or with one that
\* declares a dimension and holds so many rows in each chunk of columns and
\* so many columns in all
HessFiles ==
    {[exists |-> FALSE, section |-> FALSE, declared |-> 0, rows |-> 0, cols |-> 0],
     [exists |-> TRUE, section |-> FALSE, declared |-> 0, rows |-> 0, cols |-> 0]}
    \cup [exists : {TRUE}, section : {TRUE}, declared : HessDims, rows : HessDims,
          cols : {0} \cup HessDims]

\* ORCA._start_line_hessian: the error it ends with ("" if it returns)
start_line_hessian(file, n_atoms) ==
    IF ~file.section THEN "CouldNotGetProperty"
    ELSE IF file.declared \div 3 # n_atoms THEN "AssertionError"
    ELSE ""

\* hessian_blocks: the number of values of each row read, chunk after chunk
hessian_blocks(file) ==
    LET n_chunks == (file.cols + ChunkWidth - 1) \div ChunkWidth
    IN  [b \in 1..(n_chunks * file.rows) |->
            IF (b - 1) \div file.rows + 1 < n_chunks THEN ChunkWidth
            ELSE file.cols - ChunkWidth * (n_chunks - 1)]

\* the length of each row of hessian: the first 3 * n_atoms blocks, and each
\* later block i added to row i % (3 * n_atoms)
hessian_rows(blocks, n_atoms) ==
    [r \in 1..Min(Len(blocks), 3 * n_atoms) |->
        sum(SelectSeq([b \in 1..Len(blocks) |->
                          IF (b - 1) % (3 * n_atoms) = r - 1 THEN blocks[b] ELSE 0],
                      LAMBDA x : x > 0))]

\* np.array(hessian, dtype='f8'): the shape of the array, or ValueError if
\* the rows differ in length
np_array(rows) ==
    IF rows = <<>> THEN [exc |-> "", shape |-> <<0>>]
    ELSE IF \A r \in 1..Len(rows) : rows[r] = rows[1]
    THEN [exc |-> "", shape |-> <<Len(rows), rows[1]>>]
    ELSE [exc |-> "ValueError", shape |-> <<>>]

\* ORCA.get_hessian(calc)
orca_get_hessian(file, n_atoms) ==
    IF ~file.exists THEN [exc |-> "CouldNotGetProperty", shape |-> <<>>]
    ELSE IF start_line_hessian(file, n_atoms) # ""
    THEN [exc |-> start_line_hessian(file, n_atoms), shape |-> <<>>]
    ELSE np_array(hessian_rows(hessian_blocks(file), n_atoms))

\* a calculation of a molecule and the .hess file found next to its output
InitHess ==
    /\ SearchIdle
    /\ ValIdle
    /\ DispIdle
    /\ TrIdle
    /\ CalcIdle
    /\ RxnIdle
    /\ ProfIdle
    /\ SolvIdle
    /\ h_pc = "h_call"
    /\ h_n_atoms \in HessAtoms
    /\ h_file \in HessFiles
    /\ h_ret = NoneV

\* calc.get_hessian()
read_hessian ==
    /\ h_pc = "h_call"
    /\ h_ret' = orca_get_hessian(h_file, h_n_atoms)
    /\ h_pc' = "h_done"
    /\ UNCHANGED <<core, profv, solvv, h_n_atoms, h_file>>

NextHess == read_hessian

SpecHess == InitHess /\ [][NextHess]_vars

\* ------------------------------------------------ the reaction profile ----
\* the steps of calculate_reaction_profile after calc_solvent
ProfileSteps ==
    <<"find_lowest_energy_conformers", "optimise_reacs_prods", "locate_transition_state",
      "find_lowest_energy_ts_conformer", "calculate_single_points", "plot_reaction_profile">>

\* what find_tss can return: None or one or two transition states
FindTssResults ==
    {NoneV} \cup {ListV(l) : l \in UNION {[1..n -> [is_none : {FALSE}, energy : Energies]] :
                                            n \in 1..2}}

\* Reaction.find_lowest_energy_ts_conformer: self.ts.find_lowest_energy_ts_conformer()
ts_conformer_error(t) == IF IsNone(t) THEN "AttributeError" ELSE ""

\* Reaction.calc_delta_e_ddagger
calc_delta_e_ddagger(t, e_reacs) ==
    IF IsNone(t) THEN NoneV
    ELSE IF IsNone(t.energy) THEN NoneV
    ELSE [is_none |-> FALSE, val |-> t.energy.val - e_reacs]

\* a reaction whose profile is asked for
InitProf ==
    /\ SearchIdle
    /\ ValIdle
    /\ DispIdle
    /\ TrIdle
    /\ CalcIdle
    /\ RxnIdle
    /\ HessIdle
    /\ SolvIdle
    /\ p_pc = "p_start"
    /\ p_exc = ""
    /\ explicit_solvation \in BOOLEAN
    /\ p_tss = NoneV
    /\ p_ts = NoneV
    /\ reacs_energy \in Energies
    /\ steps = <<>>
    /\ e_ts = NoneV

\* if Config.explicit_solvation: reaction.calc_solvent(); then
\* reaction.find_lowest_energy_conformers()
profile_conformers ==
    /\ p_pc = "p_start"
    /\ steps' = (IF explicit_solvation THEN <<"calc_solvent">> ELSE <<>>)
                    \o <<"find_lowest_energy_conformers">>
    /\ p_pc' = "p_optimise"
    /\ UNCHANGED <<core, hessv, solvv, p_exc, explicit_solvation, p_tss, p_ts, reacs_energy, e_ts>>

\* reaction.optimise_reacs_prods()
profile_optimise ==
    /\ p_pc = "p_optimise"
    /\ steps' = Append(steps, "optimise_reacs_prods")
    /\ p_pc' = "p_locate"
    /\ UNCHANGED <<core, hessv, solvv, p_exc, explicit_solvation, p_tss, p_ts, reacs_energy, e_ts>>

\* reaction.locate_transition_state(): self.tss = find_tss(self) and
\* self.ts = self.find_lowest_energy_ts()
profile_locate ==
    /\ p_pc = "p_locate"
    /\ \E found \in FindTssResults :
         /\ p_tss' = found
         /\ p_ts' = IF IsNone(found) THEN NoneV
                    ELSE LET t == find_lowest_energy_ts(found)
                         IN  [is_none |-> FALSE,
                              energy |-> [is_none |-> FALSE, val |-> t.energy]]
    /\ steps' = Append(steps, "locate_transition_state")
    /\ p_pc' = "p_ts_conformer"
    /\ UNCHANGED <<core, hessv, solvv, p_exc, explicit_solvation, reacs_energy, e_ts>>

\* reaction.find_lowest_energy_ts_conformer()
profile_ts_conformer ==
    /\ p_pc = "p_ts_conformer"
    /\ IF ts_conformer_error(p_ts) # ""
       THEN /\ p_exc' = ts_conformer_error(p_ts)
            /\ p_pc' = "p_raised"
            /\ UNCHANGED steps
       ELSE /\ steps' = Append(steps, "find_lowest_energy_ts_conformer")
            /\ p_pc' = "p_single_points"
            /\ UNCHANGED p_exc
    /\ UNCHANGED <<core, hessv, solvv, explicit_solvation, p_tss, p_ts, reacs_energy, e_ts>>

\* reaction.calculate_single_points(): every molecule that is not None gets
\* the energy its single point gives, or None
profile_single_points ==
    /\ p_pc = "p_single_points"
    /\ IF IsNone(p_ts)
       THEN UNCHANGED p_ts
       ELSE \E e \in {NoneV} \cup {[is_none |-> FALSE, val |-> x] : x \in Energies} :
               p_ts' = [p_ts EXCEPT !.energy = e]
    /\ steps' = Append(steps, "calculate_single_points")
    /\ p_pc' = "p_plot"
    /\ UNCHANGED <<core, hessv, solvv, p_exc, explicit_solvation, p_tss, reacs_energy, e_ts>>

\* plot_reaction_profile(e_ts=reaction.calc_delta_e_ddagger(units), ...)
profile_plot ==
    /\ p_pc = "p_plot"
    /\ e_ts' = calc_delta_e_ddagger(p_ts, reacs_energy)
    /\ steps' = Append(steps, "plot_reaction_profile")
    /\ p_pc' = "p_done"
    /\ UNCHANGED <<core, hessv, solvv, p_exc, explicit_solvation, p_tss, p_ts, reacs_energy>>

NextProf ==
    \/ profile_conformers
    \/ profile_optimise
    \/ profile_locate
    \/ profile_ts_conformer
    \/ profile_single_points
    \/ profile_plot

SpecProf == InitProf /\ [][NextProf]_vars

\* -------------------------------------- the solvent keyword of ORCA ----
\* the most keywords a calculation is given
MaxKeywords == 2

\* implicit solvation types, as written by the user
SolvTypes == {"smd", "cpcm", "CPCM", "cosmo"}

\* keywords of a calculation
Keywords == {"Opt", "OptTS", "Freq", "NumFreq", "PBE0"}

\* solvent names; only the first two are keys of vdw_gaussian_solvent_dict
SolventNames == {"water", "dichloromethane", "hexane"}

\* str.lower() of the strings above
lower(str) ==
    CASE str = "CPCM" -> "cpcm"
      [] str = "Opt" -> "opt"
      [] str = "OptTS" -> "optts"
      [] str = "Freq" -> "freq"
      [] str = "NumFreq" -> "numfreq"
      [] str = "PBE0" -> "pbe0"
      [] OTHER -> str

\* 'freq' in kw.lower() or 'optts' in kw.lower()
has_freq_or_optts(kw) == lower(kw) \in {"freq", "numfreq", "optts"}

\* vdw_gaussian_solvent_dict, as far as the solvent names go
vdw_gaussian_solvent_dict ==
    [solv \in {"water", "dichloromethane"} |->
        IF solv = "water" THEN "Water" ELSE "CH2Cl2"]

\* f'CPCM({name})'
cpcm_keyword(solv_name) == IF solv_name = "Water" THEN "CPCM(Water)" ELSE "CPCM(CH2Cl2)"

\* use_vdw_gaussian_solvent(keywords, implicit_solv_type)
use_vdw_gaussian_solvent(kws, solv_type) ==
    IF lower(solv_type) # "cpcm" THEN FALSE
    ELSE IF \E a \in 1..Len(kws) : has_freq_or_optts(kws[a]) THEN FALSE
    ELSE TRUE

\* add_solvent_keyword(calc_input, keywords, implicit_solv_type): what it
\* raises ("" if nothing) and the list keywords after it
add_solvent_keyword(solv, kws, solv_type) ==
    IF lower(solv_type) \notin {"smd", "cpcm"}
    THEN [exc |-> "UnsuppportedCalculationInput", keywords |-> kws]
    ELSE IF use_vdw_gaussian_solvent(kws, solv_type)
            /\ solv \notin DOMAIN vdw_gaussian_solvent_dict
    THEN [exc |-> "UnsuppportedCalculationInput", keywords |-> kws]
    ELSE IF solv \notin DOMAIN vdw_gaussian_solvent_dict
    THEN [exc |-> "KeyError", keywords |-> kws]
    ELSE [exc |-> "", keywords |-> Append(kws, cpcm_keyword(vdw_gaussian_solvent_dict[solv]))]

\* a call of add_solvent_keyword with any arguments
InitSolv ==
    /\ SearchIdle
    /\ ValIdle
    /\ DispIdle
    /\ TrIdle
    /\ CalcIdle
    /\ RxnIdle
    /\ HessIdle
    /\ ProfIdle
    /\ s_pc = "s_call"
    /\ implicit_solv_type \in SolvTypes
    /\ calc_solvent \in SolventNames
    /\ given_keywords \in UNION {[1..n -> Keywords] : n \in 0..MaxKeywords}
    /\ keywords = given_keywords
    /\ s_exc = ""

\* add_solvent_keyword(calc_input, keywords, implicit_solv_type)
call_add_solvent_keyword ==
    /\ s_pc = "s_call"
    /\ LET res == add_solvent_keyword(calc_solvent, keywords, implicit_solv_type)
       IN  /\ s_exc' = res.exc
           /\ keywords' = res.keywords
    /\ s_pc' = "s_done"
    /\ UNCHANGED <<core, hessv, profv, implicit_solv_type, calc_solvent, given_keywords>>

NextSolv == call_add_solvent_keyword

SpecSolv == InitSolv /\ [][NextSolv]_vars

\* ============================================================ claims ====
AllChecked(t) == t.checks.guess /\ t.checks.filter /\ t.checks.opt /\ t.checks.valid

SearchReturned == pc \in {"find_tss_returned", "done"}

\* C1: within one get_ts call the strategies are invoked in the order the
\* generator yields them, each only after all the earlier ones failed; once a
\* strategy has given a true transition state no other strategy is invoked,
\* and get_ts returns that strategy's transition state (None only if none
\* succeeded).
C1_StrategiesInOrder ==
    /\ Len(invoked) = k
    /\ \A j \in 1..Len(invoked) : invoked[j] = j
    /\ \A j \in 1..Len(invoked) : j < Len(invoked) => invoked[j] \in failed
    /\ \A j \in 1..Len(succeeded) : succeeded[j] \notin failed
    /\ succeeded # <<>> => Len(succeeded) = 1 /\ succeeded[1] = invoked[Len(invoked)]
    /\ pc = "get_ts_return" =>
         IF IsNone(get_ret) THEN succeeded = <<>> /\ failed = 1..k
         ELSE succeeded # <<>> /\ get_ret.strategy = succeeded[1] /\ get_ret.checks.valid

\* get_ts returns the transition state of its third strategy after the first
\* two failed
C1_Witness ==
    /\ pc = "get_ts_return"
    /\ ~in_trunc
    /\ ~IsNone(get_ret)
    /\ get_ret.strategy = 3
    /\ failed = {1, 2}

OracleErrors == {"XYZsNotFound", "CouldNotGetProperty"}

\* C2: a failure of the oracle inside one strategy (no xyzs found, no Hessian
\* found) aborts that strategy only: the error never leaves get_ts or find_tss.
C2_OracleFailureAbsorbed == ~(pc = "raised" /\ exc \in OracleErrors)

\* C3: a get_ts call in which no strategy gives a transition state ends by
\* returning None, never by raising, and find_tss goes on to call get_ts for
\* every remaining rearrangement.
C3_ExhaustionReturnsNone ==
    /\ (pc = "raised" /\ ~in_trunc) => succeeded # <<>>
    /\ (pc = "get_ts_return" /\ succeeded = <<>>) => IsNone(get_ret)
    /\ (SearchReturned /\ ~IsNone(bond_rearrangs)) => Len(calls) = Len(bond_rearrangs.list)

\* C4: find_tss returns None, without raising and without invoking a strategy,
\* when no bond rearrangement is found; it returns None when no rearrangement
\* yields a transition state; it never returns an empty list.
C4_NoneWhenNothingFound ==
    /\ (IsNone(bond_rearrangs) /\ pc # "start") =>
          /\ SearchReturned
          /\ IsNone(find_ret)
          /\ calls = <<>>
          /\ invoked = <<>>
    /\ (pc \in {"find_tss_returned", "done", "raised"} /\ tss = <<>>) =>
          /\ pc # "raised"
          /\ IsNone(find_ret)
    /\ SearchReturned => find_ret # ListV(<<>>)

\* C5: find_tss calls get_ts once for each enumerated rearrangement, in the
\* order of enumeration (all of them by the time it returns), and its list
\* holds at most one transition state per rearrangement, in that same order.
C5_OncePerRearrangementInOrder ==
    /\ Len(calls) = i
    /\ \A j \in 1..Len(calls) : calls[j] = j
    /\ (SearchReturned /\ ~IsNone(bond_rearrangs)) => Len(calls) = Len(bond_rearrangs.list)
    /\ \A a \in 1..Len(tss) : tss[a].rearr \in 1..i
    /\ \A a \in 1..Len(tss) : \A b \in 1..Len(tss) : a < b => tss[a].rearr < tss[b].rearr
    /\ (SearchReturned /\ ~IsNone(find_ret)) => find_ret.list = tss

\* find_tss returned two transition states, of the first and the second
\* rearrangement
C5_Witness ==
    /\ pc = "find_tss_returned"
    /\ ~IsNone(find_ret)
    /\ Len(find_ret.list) = 2
    /\ find_ret.list[1].rearr = 1
    /\ find_ret.list[2].rearr = 2

\* C6: after locate_transition_state, reaction.ts is None exactly when find_tss
\* returned None; otherwise it is the earliest element of reaction.tss whose
\* energy is no higher than that of any element.
C6_LowestEnergyTS ==
    pc = "done" =>
      /\ IsNone(r_tss) <=> IsNone(find_ret)
      /\ IsNone(r_ts) <=> IsNone(find_ret)
      /\ ~IsNone(r_ts) =>
           \E a \in 1..Len(r_tss.list) :
             /\ r_tss.list[a] = r_ts
             /\ \A b \in 1..Len(r_tss.list) : r_ts.energy <= r_tss.list[b].energy
             /\ \A b \in 1..(a - 1) : r_tss.list[b].energy > r_ts.energy

\* two transition states of equal energy were found and reaction.ts is the
\* first of them
C6_Witness ==
    /\ pc = "done"
    /\ ~IsNone(r_tss)
    /\ Len(r_tss.list) = 2
    /\ r_tss.list[1].energy = r_tss.list[2].energy
    /\ r_ts = r_tss.list[1]

\* C7: every get_ts call made by find_tss starts from the reactant complex as
\* find_tss constructed it: the move made for one rearrangement is not seen by
\* the search for another.
C7_SameStartGeometry == (pc = "get_ts" /\ ~in_trunc) => pose = 0

\* C8: every transition state get_ts returns, and every element of find_tss's
\* result, came from a guess that was not None, passed the cheap filter, was
\* optimised and passed is_true_ts; opt_ts is never run on a guess that did not
\* pass the cheap filter.
C8_OnlyValidatedTS ==
    /\ att.opt => att.guess /\ att.filter
    /\ pc = "is_true_ts" => att.guess /\ att.filter
    /\ (pc = "get_ts_return" /\ ~IsNone(get_ret)) => AllChecked(get_ret)
    /\ \A a \in 1..Len(tss) : AllChecked(tss[a])
    /\ (SearchReturned /\ ~IsNone(find_ret)) =>
          \A a \in 1..Len(find_ret.list) : AllChecked(find_ret.list[a])

\* the search is over and reaction.tss holds a transition state found after an
\* earlier guess of the same call was stopped by the cheap filter
C8_Witness ==
    /\ pc = "done"
    /\ ~IsNone(r_tss)
    /\ Len(r_tss.list) = 1
    /\ failed # {}
    /\ AllChecked(r_tss.list[1])

Is2dOver(st, b1, b2) == st.func = "get_ts_guess_2d" /\ st.bonds = <<b1, b2>>

OneFormingOneBreaking ==
    /\ n_fbonds(g_br) = 1
    /\ n_bbonds(g_br) = 1
    /\ rtype \in {"Substitution", "Elimination"}

\* C9: for one forming and one breaking bond in a substitution or elimination
\* the generator yields template reuse first and the low-level 2-D scan over
\* (fbond, bbond) second; no 1-D scan is yielded before that 2-D scan.
C9_TwoDScanFirst ==
    OneFormingOneBreaking =>
      /\ Len(yielded) >= 1 => yielded[1].func = "get_template_ts_guess"
      /\ Len(yielded) >= 2 =>
           /\ Is2dOver(yielded[2], g_br.fbonds[1], g_br.bbonds[1])
           /\ yielded[2].method = "lmethod"
      /\ \A j \in 2..Len(yielded) : yielded[j].func # "get_template_ts_guess"
      /\ \A j \in 1..Len(yielded) :
           yielded[j].func = "get_ts_guess_1d" => j > 2
      /\ pc = "gen_done" => Len(yielded) >= 2

\* the generator has finished for such a rearrangement, and a 1-D scan came
\* after the 2-D scan
C9_Witness ==
    /\ pc = "gen_done"
    /\ OneFormingOneBreaking
    /\ yielded[2].func = "get_ts_guess_2d"
    /\ yielded[3].func = "get_ts_guess_1d"

\* C10: every 1-D scan uses the high-level method, and for each bond scanned
\* in 1-D the scan with the low_opt keywords is yielded immediately before
\* the scan of the same bond with the opt keywords.
C10_OneDScansCheapThenRigorous ==
    \A j \in 1..Len(yielded) :
      yielded[j].func = "get_ts_guess_1d" =>
        /\ yielded[j].method = "hmethod"
        /\ yielded[j].keywords \in {"low_opt", "opt"}
        /\ yielded[j].keywords = "opt" =>
             /\ j > 1
             /\ yielded[j - 1].func = "get_ts_guess_1d"
             /\ yielded[j - 1].keywords = "low_opt"
             /\ yielded[j - 1].bonds = yielded[j].bonds
        /\ (yielded[j].keywords = "low_opt" /\ (j < Len(yielded) \/ pc = "gen_done")) =>
             /\ j < Len(yielded)
             /\ yielded[j + 1].func = "get_ts_guess_1d"
             /\ yielded[j + 1].keywords = "opt"
             /\ yielded[j + 1].bonds = yielded[j].bonds

\* the generator has finished for one forming and two breaking bonds: the
\* forming bond was scanned in 1-D, cheap then rigorous
C10_Witness ==
    /\ pc = "gen_done"
    /\ n_fbonds(g_br) = 1
    /\ n_bbonds(g_br) = 2
    /\ yielded[2].func = "get_ts_guess_1d"
    /\ yielded[2].keywords = "low_opt"
    /\ yielded[3].keywords = "opt"
    /\ yielded[3].bonds = <<g_br.fbonds[1]>>

\* a 2-D scan over a (forming, breaking) pair, other than the low-level scan
\* of the one-forming-one-breaking substitution/elimination case
PairScanAt(j) ==
    /\ yielded[j].func = "get_ts_guess_2d"
    /\ yielded[j].name.tag \in {"ll2d", "hl2d"}
    /\ ~(j = 2 /\ OneFormingOneBreaking)

\* C11: the 2-D scans over every (forming bond, breaking bond) pair are
\* yielded only for a rearrangement with several forming and several breaking
\* bonds; each pair's low-level 2-D scan is immediately followed by the
\* high-level 2-D scan of the same pair.
C11_PairScansOnlyForMultipleBonds ==
    \A j \in 1..Len(yielded) :
      PairScanAt(j) =>
        /\ n_fbonds(g_br) >= 2
        /\ n_bbonds(g_br) >= 2
        /\ yielded[j].name.tag = "hl2d" =>
             /\ j > 1
             /\ yielded[j - 1].name.tag = "ll2d"
             /\ yielded[j - 1].method = "lmethod"
             /\ yielded[j - 1].bonds = yielded[j].bonds
        /\ (yielded[j].name.tag = "ll2d" /\ (j < Len(yielded) \/ pc = "gen_done")) =>
             /\ j < Len(yielded)
             /\ yielded[j + 1].name.tag = "hl2d"
             /\ yielded[j + 1].method = "hmethod"
             /\ yielded[j + 1].bonds = yielded[j].bonds

\* C12: the 2-D scan over the two forming bonds is yielded only for two
\* forming bonds and no breaking bond, the 2-D scan over the two breaking
\* bonds only for two breaking bonds and no forming bond.
C12_TwoBondScansOnlyWithoutCounterpart ==
    \A j \in 1..Len(yielded) :
      /\ yielded[j].name.tag \in {"ll2d_fbonds", "hl2d_fbonds"} =>
           n_fbonds(g_br) = 2 /\ n_bbonds(g_br) = 0
      /\ yielded[j].name.tag \in {"ll2d_bbonds", "hl2d_bbonds"} =>
           n_bbonds(g_br) = 2 /\ n_fbonds(g_br) = 0

\* two strategies run the same scan function over the same bonds with the
\* same method, keywords and scan name
SameScan(s1, s2) ==
    /\ s1.func = s2.func
    /\ s1.bonds = s2.bonds
    /\ s1.method = s2.method
    /\ s1.keywords = s2.keywords
    /\ s1.name = s2.name

\* C36: the generator yields no strategy twice
C36_NoStrategyYieldedTwice ==
    \A j \in 1..Len(yielded) : \A l \in 1..Len(yielded) :
        j # l => ~SameScan(yielded[j], yielded[l])

\* C13: the truncated search is over before any strategy of the full system
\* is tried, and the truncation pre-pass changes nothing about what get_ts
\* gives: no exception comes out of a run in which the pre-pass was entered
\* that the same run without the pre-pass would not have raised.
C13_TruncationChangesNothing ==
    /\ (pc \in {"strategies", "filter", "opt_ts", "is_true_ts"} /\ ~in_trunc) =>
          (IsNone(t_rearrs) \/ t_j = Len(t_rearrs.list))
    /\ pc = "raised" => (name = 0 /\ ~in_trunc)

\* a bond the rearrangement breaks
IsBreakingBond(bond) == \E a \in 1..n_bbonds(g_br) : g_br.bbonds[a] = bond

\* C38: in every scan strategy yielded over a breaking bond (i, j) the final
\* distance given for that bond is the distance between i and j in the
\* reactant plus get_added_bbond_dist(reaction), added once
C38_BreakingBondFinalDistance ==
    \A j \in 1..Len(yielded) :
        yielded[j].func \in {"get_ts_guess_1d", "get_ts_guess_2d"} =>
            \A a \in 1..Len(yielded[j].bonds) :
                IsBreakingBond(yielded[j].bonds[a]) =>
                    yielded[j].dists[a]
                        = get_distance(n_molecules, pose, yielded[j].bonds[a][1],
                                       yielded[j].bonds[a][2])
                            + (IF prods_charged THEN 25 ELSE 15)

\* control is in get_ts on the full system after the pre-pass, or get_ts
\* has returned
PastTruncation ==
    /\ ~in_trunc
    /\ pc \in {"orient", "strategies", "filter", "opt_ts", "is_true_ts", "get_ts_return",
               "find_tss_loop", "find_tss_returned", "done"}

\* C37: get_ts leaves reaction.name as it was: the '_truncated' suffix of the
\* pre-pass is off again when the strategies of the full system are tried
\* and when get_ts is over, and the pre-pass does not end in an exception
\* with the suffix still on
C37_NameRestoredAfterTruncation ==
    /\ PastTruncation => name = 0
    /\ pc = "raised" => name = 0

\* ------------------------------------------------ validator claims ----
CouldHave == v_entry = "could_have_correct_imag_mode"

HasCorrect == v_entry = "has_correct_imag_mode"

Links == v_entry = "imag_mode_links_reactant_products"

\* the most negative of a list of frequencies
RECURSIVE MostNegative(_)
MostNegative(l) == IF Len(l) = 1 THEN l[1] ELSE Min(l[1], MostNegative(Tail(l)))

\* the Hessian has no imaginary frequency, or its most negative one is
\* smaller in magnitude than the threshold
NoSignificantMode ==
    \/ IsNone(imaginary_frequencies(ts_hessian))
    \/ Abs(MostNegative(imaginary_frequencies(ts_hessian).list)) < Abs(min_imag_freq)

\* C14: could_have_correct_imag_mode returns False, without any displacement
\* check, when there is no imaginary frequency or the most negative one is
\* smaller in magnitude than Config.min_imag_freq.
C14_NoDisplacementCheckForSmallMode ==
    (CouldHave /\ v_pc = "v_ret" /\ NoSignificantMode) =>
        /\ ~v_result
        /\ disp_checks = 0

\* the Hessian was calculated, its only imaginary frequency is too small and
\* False is returned
C14_Witness ==
    /\ CouldHave
    /\ v_pc = "v_ret"
    /\ hess_calcs = 1
    /\ imaginary_frequencies(ts_hessian) = ListV(<<-10>>)
    /\ ~v_result

\* the conservative and the strict displacement tests on the Hessian's mode
DisplacementTest(delta_threshold, req_all) ==
    imag_mode_has_correct_displacement(ts_coords, normal_mode(ts_hessian), ActiveBonds,
                                       other_bonds, delta_threshold, req_all)

CheapFilterPasses == ~NoSignificantMode /\ DisplacementTest(5, FALSE)

\* C15: in has_correct_imag_mode the link check runs only if the cheap filter
\* passed and the strict displacement test failed; a failed cheap filter
\* gives False and a passed strict test True, both without optimising any
\* displaced geometry.
C15_LinkCheckOnlyAfterStrictFails ==
    HasCorrect =>
      /\ v_pc \in {"lk_begin", "lk_opt", "lk_iso"} =>
           CheapFilterPasses /\ ~DisplacementTest(30, TRUE)
      /\ opts > 0 => CheapFilterPasses /\ ~DisplacementTest(30, TRUE)
      /\ (v_pc = "v_ret" /\ ~CheapFilterPasses) => ~v_result /\ opts = 0
      /\ (v_pc = "v_ret" /\ CheapFilterPasses /\ DisplacementTest(30, TRUE)) =>
           v_result /\ opts = 0

\* has_correct_imag_mode returns True from the link check, made with the
\* low-level method after the strict test failed
C15_Witness ==
    /\ HasCorrect
    /\ v_pc = "v_ret"
    /\ v_result
    /\ opts = 4
    /\ ~DisplacementTest(30, TRUE)

\* both displaced molecules were optimised with method m
Optimised(m) ==
    /\ opt_memo[<<m, 1>>] \in {"R", "P", "X"}
    /\ opt_memo[<<m, 2>>] \in {"R", "P", "X"}

\* the structures optimised with method m link reactant and product
LinkWith(m) ==
    /\ Optimised(m)
    /\ \/ opt_memo[<<m, 2>>] = "R" /\ opt_memo[<<m, 1>>] = "P"
       \/ opt_memo[<<m, 1>>] = "R" /\ opt_memo[<<m, 2>>] = "P"

\* C16: imag_mode_links_reactant_products returns True exactly when the two
\* displaced geometries, optimised with the high-level method or, if that
\* gives no link, with the low-level one, are isomorphic to reactant and
\* product either way round; f_b_isomorphic_to_r_p gives the same answer with
\* its forwards and backwards arguments exchanged.
C16_LinkExactlyWhenIsomorphic ==
    /\ (Links /\ v_pc = "v_ret") =>
          (v_result <=> (LinkWith(1) \/ (Optimised(1) /\ LinkWith(2))))
    /\ v_pc = "lk_iso" =>
          f_b_isomorphic_to_r_p(f_mol, b_mol) = f_b_isomorphic_to_r_p(b_mol, f_mol)

\* True is returned after the low-level optimisation took the forwards
\* structure to the reactant and the backwards one to the product
C16_Witness ==
    /\ Links
    /\ v_pc = "v_ret"
    /\ v_result
    /\ lk_method = 2
    /\ f_mol.graph = "R"
    /\ b_mol.graph = "P"

\* an optimisation of a displaced geometry has failed
OptimisationFailed == \E key \in OptKeys : opt_memo[key] = "AtomsNotFound"

C18_ValueErrorBeforeHessian ==
    (CouldHave /\ ~ts_br_set /\ v_pc \notin {"v_idle", "ch_br"}) =>
        /\ v_pc = "v_raised"
        /\ v_exc = "ValueError"
        /\ hess_calcs = 0
        /\ disp_checks = 0
        /\ opts = 0
        /\ v_results = <<>>

\* ValueError was raised for a species that has no Hessian yet
C18_Witness ==
    /\ CouldHave
    /\ ~ts_br_set
    /\ IsNone(ts_hessian)
    /\ v_pc = "v_raised"
    /\ v_exc = "ValueError"

\* C19: has_correct_imag_mode never returns True or False for a species whose
\* reactant or product is not set: it raises ValueError.
C19_ValueErrorWithoutReactantProduct ==
    (HasCorrect /\ (~ts_reactant \/ ~ts_product)) =>
        /\ v_pc # "v_ret"
        /\ v_results = <<>>

\* C20: a transition state for which has_correct_imag_mode was True gives
\* True again, with the same Hessian and the same oracle answers; the first
\* evaluation leaves the geometry and the Hessian of the transition state as
\* the evaluation found or computed them, and the second one does not raise.
C20_ValidationIdempotent ==
    (HasCorrect /\ v_results # <<>> /\ v_results[1]) =>
        /\ \A j \in 1..Len(v_results) : v_results[j]
        /\ v_pc # "v_raised"
        /\ v_pc = "v_ret" => v_result
        /\ ts_coords = Coordinates
        /\ ts_hessian = hess_oracle

\* the second evaluation went through the link check again, on the stored
\* Hessian, and was True again
C20_Witness ==
    /\ HasCorrect
    /\ Len(v_results) = 2
    /\ v_results[1]
    /\ v_results[2]
    /\ hess_calcs = 0
    /\ opts > 0
    /\ conformers = 2

\* ------------------------------------------- displacement claims ----
Displaced == d_pc = "d_done" /\ d_entry = "displaced_species_along_mode"

DispChecked == d_pc = "d_done" /\ d_entry = "imag_mode_has_correct_displacement"

\* C21: whatever the normal mode, disp_factor and max_atom_disp, no atom of
\* the species displaced_species_along_mode returns is further than
\* max_atom_disp from where it is in the species it was made from
C21_DisplacementCapped ==
    (Displaced /\ ~IsNone(d_ret)) => max_norm(d_coords, d_ret.coords) <= d_cap

\* the loop had to take the whole displacement back
C21_Witness ==
    /\ Displaced
    /\ ~IsNone(d_ret)
    /\ d_cap = 0
    /\ d_factor = 2
    /\ max_norm(d_coords, [a \in 1..Len(d_coords) |-> d_coords[a] + d_mode.list[a]]) = 60
    /\ d_ret.coords = d_coords

\* the bonds a displaced geometry makes or breaks with respect to the TS
ChangedBonds(p_graph) == (p_graph \ d_ts_graph) \cup (d_ts_graph \ p_graph)

\* a bond that is not to a metal and has an atom outside the active atoms
InactiveBond(bond) ==
    /\ \A a \in 1..2 : DispLabels[bond[a] + 1] \notin metals
    /\ \E a \in 1..2 : bond[a] \notin active_atoms(d_br)

\* C22: imag_mode_has_correct_displacement returns False whenever the forward
\* or the backward displaced geometry makes or breaks a bond that has an atom
\* outside the active atoms and is not a bond to a metal
C22_NoBondChangeOutsideActiveAtoms ==
    (DispChecked /\ \E bond \in ChangedBonds(d_f_graph) \cup ChangedBonds(d_b_graph) :
                        InactiveBond(bond))
        => d_ret = FALSE

\* the displaced geometry p_coords has a forming bond shorter, or a breaking
\* bond longer, than at the TS by more than delta_threshold
SomeBondCorrect(p_coords) ==
    \/ \E a \in 1..n_fbonds(d_br) :
          distance(d_coords, d_br.fbonds[a]) - distance(p_coords, d_br.fbonds[a]) > d_delta
    \/ \E a \in 1..n_bbonds(d_br) :
          distance(p_coords, d_br.bbonds[a]) - distance(d_coords, d_br.bbonds[a]) > d_delta

\* every forming bond is shorter and every breaking bond longer
EveryBondCorrect(p_coords) ==
    /\ \A a \in 1..n_fbonds(d_br) :
          distance(d_coords, d_br.fbonds[a]) - distance(p_coords, d_br.fbonds[a]) > d_delta
    /\ \A a \in 1..n_bbonds(d_br) :
          distance(p_coords, d_br.bbonds[a]) - distance(d_coords, d_br.bbonds[a]) > d_delta

\* the forward and the backward displaced geometries of the check
DisplacedGeometries ==
    {displaced_species_along_mode(d_coords, d_mode, f, 50).coords : f \in {1, -1}}

NoInactiveBondGenerated ==
    ~imag_mode_generates_other_bonds(d_ts_graph, d_f_graph, d_b_graph, DispLabels, d_br, TRUE)

\* C23: with no inactive bond generated, imag_mode_has_correct_displacement
\* with req_all=False is True exactly when in the forward or in the backward
\* geometry some active bond moves the right way by more than
\* delta_threshold, and with req_all=True exactly when in one of the two
\* geometries every active bond does
C23_CorrectDisplacementResult ==
    (DispChecked /\ NoInactiveBondGenerated)
        => d_ret = IF d_req_all
                   THEN \E p_coords \in DisplacedGeometries : EveryBondCorrect(p_coords)
                   ELSE \E p_coords \in DisplacedGeometries : SomeBondCorrect(p_coords)

\* some bond is correct in a geometry but in neither geometry all are: the
\* cheap test passes and the strict one would not
C23_Witness ==
    /\ DispChecked
    /\ NoInactiveBondGenerated
    /\ ~d_req_all
    /\ d_ret = TRUE
    /\ \A p_coords \in DisplacedGeometries : ~EveryBondCorrect(p_coords)

\* the species displaced by disp_factor * mode with no cap
FullDisplacement(factor) ==
    [a \in 1..Len(DispCoordinates) |-> DispCoordinates[a] + factor * d_mode.list[a]]

\* the loop of displaced_species_along_mode takes nothing back
CapNotHit == max_norm(DispCoordinates, FullDisplacement(d_factor)) < d_cap

\* C34: displaced_species_along_mode leaves the coordinates of the species
\* it is given as they were, so a forward and a backward displacement made
\* one after the other are both made from the original geometry, and are
\* original + d and original - d when the cap is not hit
C34_SpeciesLeftAloneAndMirrored ==
    d_entry = "displaced_species_along_mode" =>
        /\ d_coords = DispCoordinates
        /\ (d_pc = "d_both" /\ ~IsNone(d_mode)) =>
              /\ d_ret = displaced_species_along_mode(DispCoordinates, d_mode, d_factor, d_cap)
              /\ d_ret_b = displaced_species_along_mode(DispCoordinates, d_mode, -d_factor, d_cap)
              /\ CapNotHit =>
                    /\ d_ret.coords = FullDisplacement(d_factor)
                    /\ d_ret_b.coords = FullDisplacement(-d_factor)
                    /\ \A a \in 1..Len(DispCoordinates) :
                          d_ret.coords[a] - DispCoordinates[a]
                              = DispCoordinates[a] - d_ret_b.coords[a]

\* both displacements were made, the cap was not hit and atoms have moved
C34_Witness ==
    /\ d_pc = "d_both"
    /\ d_entry = "displaced_species_along_mode"
    /\ ~IsNone(d_mode)
    /\ CapNotHit
    /\ d_ret.coords # DispCoordinates
    /\ d_ret_b.coords # d_ret.coords

\* -------------------------------------- reactant orientation claims ----
\* C24: translate_rotate_reactant leaves a complex of fewer than two
\* molecules as it was, and otherwise moves atoms of the attacking molecule
\* only; no atom moves before the function returns
C24_OnlyAttackingMoleculeMoves ==
    /\ tr_pc \in {"tr_start", "tr_loop"} => tr_coords = TrCoordinates(tr_n_mols)
    /\ tr_pc = "tr_done" =>
         /\ tr_n_mols < 2 => tr_coords = TrCoordinates(tr_n_mols)
         /\ \A a \in 1..Len(tr_coords) :
               TrMols(tr_n_mols)[a] # attacking_mol
                   => tr_coords[a] = TrCoordinates(tr_n_mols)[a]

\* the second of three molecules was moved
C24_Witness ==
    /\ tr_pc = "tr_done"
    /\ tr_n_mols = 3
    /\ attacking_mol = 1
    /\ tr_coords[3] # TrCoordinates(tr_n_mols)[3]
    /\ tr_coords[4] # TrCoordinates(tr_n_mols)[4]

\* the earliest restart whose final cost no restart is below
BestRestart ==
    CHOOSE j \in 1..Len(restarts) :
        /\ \A l \in 1..Len(restarts) : restarts[j].fun <= restarts[l].fun
        /\ \A l \in 1..(j - 1) : restarts[l].fun > restarts[j].fun

\* C25: the parameters applied to the reactant are those of the restart with
\* the lowest final cost, the earliest one on a tie, and the cost logged is
\* that lowest cost
C25_LowestCostRestartApplied ==
    (tr_pc = "tr_done" /\ tr_n_mols >= 2) =>
        /\ Len(restarts) = n_iters
        /\ opt_x = [is_none |-> FALSE, val |-> restarts[BestRestart].x]
        /\ logged_cost = [is_none |-> FALSE, val |-> restarts[BestRestart].fun]
        /\ tr_coords = apply_pose(TrCoordinates(tr_n_mols), TrMols(tr_n_mols),
                                  restarts[BestRestart].x, attacking_mol)

\* a later restart ended lower than the first and its parameters were applied
C25_Witness ==
    /\ tr_pc = "tr_done"
    /\ tr_n_mols >= 2
    /\ restarts[Len(restarts)].fun < restarts[1].fun
    /\ restarts[Len(restarts)].x # restarts[1].x
    /\ BestRestart = Len(restarts)
    /\ tr_coords # TrCoordinates(tr_n_mols)

\* ------------------------------------------------ calculation claims ----
\* run has returned
Ran == c_pc = "c_ran" \/ (c_pc = "c_end" /\ c_exc = "")

\* C26: after run, terminated_normally is True only if there is an output
\* and the method finds it terminated normally; when terminated_normally is
\* False, get_energy returns None
C26_NoEnergyUnlessTerminatedNormally ==
    /\ (Ran /\ terminated_normally) =>
          /\ ~IsNone(output_file)
          /\ ~IsNone(output_file_lines)
          /\ method_calculation_terminated_normally(output_file_lines.list)
    /\ (c_pc = "c_end" /\ ~terminated_normally) => energy_ret = "None"

\* run returned without any output being there, and get_energy gave None
C26_Witness ==
    /\ c_pc = "c_end"
    /\ c_exc = ""
    /\ IsNone(output_file_lines)
    /\ ~terminated_normally
    /\ energy_ret = "None"

\* the time the caller allows an external program
TimeBudget == MaxWait - 1

\* C27: an external program that has run for longer than the time budget is
\* no longer waited for
C27_AbandonedAfterTimeBudget == waited > TimeBudget => c_pc # "wait"

\* the atoms of the active bonds
ActiveAtoms == {bond_ids_to_add.list[a][b] : a \in 1..Len(bond_ids_to_add.list), b \in 1..2}

\* atoms a and b are bonded in the molecule
Bonded(a, b) == <<a, b>> \in mol_graph \/ <<b, a>> \in mol_graph

\* a calculation with xyzs and active bonds has been constructed
HasActiveBonds ==
    /\ c_pc # "c_new"
    /\ ~xyzs_none
    /\ ~IsNone(bond_ids_to_add)
    /\ bond_ids_to_add.list # <<>>

\* C28: for a calculation with active bonds, core_atoms lists, once each,
\* the atoms of the active bonds and the atoms bonded to one of them, and
\* nothing else
C28_CoreAtomsAreActiveAndNeighbours ==
    HasActiveBonds =>
        /\ ~IsNone(core_atoms)
        /\ \A a \in ActiveAtoms : \E j \in 1..Len(core_atoms.list) : core_atoms.list[j] = a
        /\ \A a \in CalcAtoms :
              (\E j \in 1..Len(core_atoms.list) : core_atoms.list[j] = a)
                  <=> (a \in ActiveAtoms \/ \E b \in ActiveAtoms : Bonded(a, b))
        /\ \A j, l \in 1..Len(core_atoms.list) :
              core_atoms.list[j] = core_atoms.list[l] => j = l

\* an atom that is in no active bond is a core atom, and another atom is not
C28_Witness ==
    /\ HasActiveBonds
    /\ \E j \in 1..Len(core_atoms.list) : core_atoms.list[j] \notin ActiveAtoms
    /\ \E a \in CalcAtoms : \A j \in 1..Len(core_atoms.list) : core_atoms.list[j] # a

\* once a run has ended terminated normally, the calculation stays so and
\* no program is launched any more; if that was the first run, at most one
\* program was ever launched
RunsAfterNormalTermination ==
    /\ \A a \in 1..Len(runs) :
          runs[a].terminated_normally =>
              /\ terminated_normally
              /\ n_popen = runs[a].n_popen
              /\ \A b \in a..Len(runs) : runs[b] = runs[a]
    /\ (runs # <<>> /\ runs[1].terminated_normally) => n_popen <= 1

\* execute_calculation with an output file on disk that reports normal
\* termination launches nothing and, unless it returns before it looks at
\* the output, takes that output as the lines of the calculation
NoLaunchOverNormalOutput ==
    (/\ execute_calculation
     /\ ~IsNone(output_file)
     /\ method_calculation_terminated_normally(output_file.list))
        => /\ n_popen' = n_popen
           /\ output_file' = output_file
           /\ c_pc' # "wait"
           /\ (input_filename /\ method_available /\ input_file)
                 => output_file_lines' = output_file

\* C35: execute_calculation does not launch the external program over an
\* output that exists and reports normal termination, and uses that output;
\* a calculation run again after a run that terminated normally launches
\* nothing more (at most one launch in all if that was its first run) and is
\* terminated normally again
C35_NormalOutputIsReused == []RunsAfterNormalTermination /\ [][NoLaunchOverNormalOutput]_vars

\* the first run launched the program, which terminated normally, and the
\* calculation has been run a second time
C35_Witness ==
    /\ c_pc = "c_ran"
    /\ Len(runs) = 2
    /\ runs[1] = [terminated_normally |-> TRUE, n_popen |-> 1]
    /\ input_file

\* one of the last n lines has 'ORCA TERMINATED NORMALLY' or 'The
\* optimization did not converge'
TerminationStringInLast(n, lines) ==
    \E a \in 1..Len(lines) : a > Len(lines) - n /\ lines[a] \in {"T", "N"}

\* C39: ORCA.calculation_terminated_normally is True exactly when one of the
\* two termination strings is in one of the last 32 lines of the output, so
\* False for an empty output and True for an optimisation that did not
\* converge
C39_TerminationStringInLast32Lines ==
    (c_pc \in {"finish", "c_ran"} /\ ~IsNone(output_file_lines)) =>
        /\ method_calculation_terminated_normally(output_file_lines.list)
              <=> TerminationStringInLast(32, output_file_lines.list)
        /\ c_pc = "c_ran" =>
              (terminated_normally <=> TerminationStringInLast(32, output_file_lines.list))

\* the termination line is the 32nd line from the end: terminated normally
C39_Witness ==
    /\ c_pc = "c_ran"
    /\ ~IsNone(output_file_lines)
    /\ Len(output_file_lines.list) = 32
    /\ output_file_lines.list[1] = "T"
    /\ terminated_normally

\* --------------------------------------------------- reaction claims ----
\* the total number of atoms and the total charge of a list of molecules
TotalAtoms(mols) == sum([a \in 1..Len(mols) |-> mols[a].n_atoms])

TotalCharge(mols) == sum([a \in 1..Len(mols) |-> mols[a].charge])

Unbalanced ==
    TotalAtoms(reacs) # TotalAtoms(prods) \/ TotalCharge(reacs) # TotalCharge(prods)

ConstructionEnded == rx_pc \in {"rx_made", "rx_raised"}

ChargeIsBothSums ==
    rx_pc = "rx_made" =>
        /\ charge = [is_none |-> FALSE, val |-> TotalCharge(reacs)]
        /\ TotalCharge(reacs) = TotalCharge(prods)

\* C29 as stated: the construction of a Reaction whose reactants and
\* products differ in atoms or in charge raises UnbalancedReaction, and the
\* charge of a constructed Reaction is the sum of the charges of its
\* reactants and of its products
C29_UnbalancedRaisesUnbalancedReaction ==
    /\ (ConstructionEnded /\ Unbalanced) => rx_exc = "UnbalancedReaction"
    /\ ChargeIsBothSums

\* C29 amended: a Reaction whose reactants and products differ in atoms or
\* in charge is never constructed; its construction raises UnbalancedReaction
\* unless the solvent check, which is made first, has raised; the charge of a
\* constructed Reaction is the sum of the charges of its reactants and of
\* its products
C29_UnbalancedNeverConstructed ==
    /\ Unbalanced => rx_pc \notin {"rx_switch", "rx_made"}
    /\ (ConstructionEnded /\ Unbalanced /\ check_solvent(solvent, reacs \o prods).exc = "")
          => rx_exc = "UnbalancedReaction"
    /\ ChargeIsBothSums

\* the atoms balance and the charges do not: UnbalancedReaction
C29_Witness ==
    /\ rx_pc = "rx_raised"
    /\ rx_exc = "UnbalancedReaction"
    /\ TotalAtoms(reacs) = TotalAtoms(prods)
    /\ TotalCharge(reacs) # TotalCharge(prods)

\* C30: the solvent check either raises SolventsDontMatch or leaves every
\* reactant and product with the solvent of the reaction (None for all in
\* the gas phase); it raises nothing else
C30_SolventsMatchOrSolventsDontMatch ==
    /\ rx_exc \in {"", "SolventsDontMatch", "UnbalancedReaction"}
    /\ rx_pc \in {"rx_balance", "rx_switch", "rx_made"} =>
          \A a \in 1..Len(reacs \o prods) : (reacs \o prods)[a].solvent = solvent

\* the class of every molecule of a list is c
AllOfClass(mols, c) == \A a \in 1..Len(mols) : mols[a].cls = c

\* self.reacs holds the Product molecules passed in and self.prods the
\* Reactant molecules
Exchanged == AllOfClass(reacs, "Product") /\ AllOfClass(prods, "Reactant")

\* the reactants and the products as they were passed in
PassedReacs == IF Exchanged THEN prods ELSE reacs

PassedProds == IF Exchanged THEN reacs ELSE prods

TotalBonds(mols) == sum([a \in 1..Len(mols) |-> mols[a].n_bonds])

\* C33: a constructed Reaction is never an Addition: two reactants given one
\* product make a Dissociation with the lists exchanged; switched_reacs_prods
\* is True exactly when the lists are exchanged; a Rearrangement is exchanged
\* exactly when its products have strictly more bonds than its reactants
C33_SwitchedExactlyWhenExchanged ==
    rx_pc = "rx_made" =>
        /\ rx_type # "Addition"
        /\ classify(PassedReacs, PassedProds) = "Addition"
              => (rx_type = "Dissociation" /\ Exchanged)
        /\ switched_reacs_prods <=> Exchanged
        /\ Exchanged \/ (AllOfClass(reacs, "Reactant") /\ AllOfClass(prods, "Product"))
        /\ rx_type = "Rearrangement"
              => (Exchanged <=> TotalBonds(PassedProds) > TotalBonds(PassedReacs))

\* a rearrangement whose product has a bond more than its reactant: exchanged
C33_Witness ==
    /\ rx_pc = "rx_made"
    /\ rx_type = "Rearrangement"
    /\ switched_reacs_prods
    /\ TotalBonds(reacs) > TotalBonds(prods)

\* ---------------------------------------------------- Hessian claims ----
\* the file holds a Hessian of 3N x 3N for the N atoms of the molecule
HessianIs3N ==
    /\ h_file.exists
    /\ h_file.section
    /\ h_file.declared = 3 * h_n_atoms
    /\ h_file.rows = 3 * h_n_atoms
    /\ h_file.cols = 3 * h_n_atoms

\* C31: get_hessian raises if the Hessian of the output is not 3N x 3N for
\* the N atoms of the molecule, and never returns a matrix that is not
\* 3N x 3N
C31_HessianIs3NOrRaises ==
    h_pc = "h_done" =>
        /\ ~HessianIs3N => h_ret.exc # ""
        /\ h_ret.exc = "" => h_ret.shape = <<3 * h_n_atoms, 3 * h_n_atoms>>

\* ---------------------------------------------------- profile claims ----
\* find_tss has returned None
NoTSFound == p_pc \in {"p_ts_conformer", "p_single_points", "p_plot", "p_done", "p_raised"}
                 /\ IsNone(p_tss)

\* C32: when find_tss returns None, calculate_reaction_profile raises nothing
\* and goes through all its steps in order, the barrier it plots being None
C32_ProfileWithoutTS ==
    NoTSFound =>
        /\ p_exc = ""
        /\ p_pc # "p_raised"
        /\ \A a \in 1..Len(steps) :
              steps[a] = IF explicit_solvation
                         THEN (<<"calc_solvent">> \o ProfileSteps)[a] ELSE ProfileSteps[a]
        /\ p_pc = "p_done" => (IsNone(e_ts) /\ steps[Len(steps)] = "plot_reaction_profile")

\* ---------------------------------------------------- solvent claims ----
\* C40: add_solvent_keyword either appends exactly one 'CPCM(...)' keyword to
\* the list or raises UnsuppportedCalculationInput and leaves the list as it
\* was; it raises nothing else
C40_KeywordAppendedOrUnsupported ==
    s_pc = "s_done" =>
        \/ /\ s_exc = ""
           /\ Len(keywords) = Len(given_keywords) + 1
           /\ SubSeq(keywords, 1, Len(given_keywords)) = given_keywords
           /\ keywords[Len(keywords)] \in {"CPCM(Water)", "CPCM(CH2Cl2)"}
        \/ /\ s_exc = "UnsuppportedCalculationInput"
           /\ keywords = given_keywords

====
